---- MODULE Spec2Model ----
(***************************************************************************)
(* Model of async-cell-lock: the QueueRwLock, the async RwLock and Mutex,  *)
(* the sync Mutex, the task-local deadlock detector (LockData, Task,       *)
(* locks_held, LockAwaitGuard, LockHeldGuard) and AsyncOnceCell.           *)
(*                                                                         *)
(* Tasks run in parallel.  Every access to state shared between tasks (a   *)
(* raw tokio / parking_lot primitive, a LockData, a Task's await_lock_id)  *)
(* is one step; a task's program counter pc[t] is the label of its next    *)
(* step.  Labels are named after the function they belong to:              *)
(*   qu_ QueueRwLock::queue          rd_ QueueRwLock::read / RwLock::read  *)
(*   tq_ QueueRwLock::try_queue      wr_ QueueRwLockQueueGuard::write      *)
(*   rw_ RwLock::write               mx_ async Mutex::lock                 *)
(*   sm_ sync Mutex::lock            oc_ AsyncOnceCell::get_or_init        *)
(*   wrd_/wqu_ QueueRwLockWriteGuard::read/queue                           *)
(*   rqu_ QueueRwLockReadGuard::queue                                      *)
(*   dr_/dq_/dw_/dm_ drop of a read / queue / write / mutex guard          *)
(***************************************************************************)
EXTENDS Integers, Sequences, FiniteSets, TLC

\* ------------------------------------------------------------------ bounds
\* number of Read guards one task may hold on one lock at a time
MaxReads == 2
\* number of modifications made through Write guards in one run
MaxWrites == 2
\* number of initializer futures of a run that may fail
MaxFails == 2
\* calls of LockData::id are made while the static ID is below MaxIds
MaxIds == 4
\* with_deadlock_check futures are nested at most MaxNest deep
MaxNest == 2

\* ---------------------------------------------------------------- universe
\* tasks are numbered from 1: A = 1, B = 2, C = 3
TwoTasks == {1, 2}
ThreeTasks == {1, 2, 3}
NoTask == 0

QueueLocks == {"Q1", "Q2", "Q3"}
RwLocks == {"RW"}
\* K1, K2: the cells of the keys of an AsyncHashMapOnce
OnceKeys == {"K1", "K2"}
MutexLocks == {"MX", "OC"} \cup OnceKeys
SyncMutexLocks == {"SM"}
\* SR: a sync RwLock, a parking_lot RwLock with the detector
SyncRwLocks == {"SR"}
\* LD: an AsyncLoadRwLock, a raw tokio RwLock<Option<T>> without detector
LoadLocks == {"LD"}
Locks ==
    QueueLocks \cup RwLocks \cup MutexLocks \cup SyncMutexLocks
        \cup SyncRwLocks

\* lock configurations of a run: the locks the tasks of the run use
SingleLock == {{"Q1"}, {"RW"}, {"MX"}, {"SM"}, {"SR"}}

VARIABLES
    pc,             \* pc[t]: label of the next step of task t
    op,             \* op[t]: the public operation task t is executing
    cur,            \* cur[t]: the lock that operation is called on
    res,            \* res[t]: result of the operation once determined
    rg, qg, wg,     \* guards a task owns: rg[t][l] Read guards (a count),
                    \* qg[t][l] Queue guard, wg[t][l] Write / Mutex guard
    scoped,         \* scoped[t]: t runs inside with_deadlock_check
    nest,           \* nest[t]: the with_deadlock_check futures t is inside
    task,           \* task[t]: the Task of the scope t runs in; futures
                    \* joined inside one scope share it and its LOCKS_HELD
    locks_held,     \* LOCKS_HELD of the task: Vec<u64>
    await_lock_id,  \* Task::await_lock_id
    lock_id,        \* LockData::lock_id
    ID,             \* utils.rs static ID
    locked_tasks,   \* LockData::locked_tasks: Vec<Arc<Task>>
    mtx,            \* raw Mutex of a lock: holder and FIFO wait queue
    rwl,            \* raw RwLock of a lock: readers, writer, FIFO wait queue
    value,          \* the T protected by the lock: number of modifications
    seen,           \* seen[t]: the value t last read through a guard
    used,           \* the locks the tasks of this run use
    cell,           \* cell[l]: AsyncOnceCell::cell of the cell with lock l
                    \* (0: empty)
    hmap,           \* AsyncHashMapOnce: the keys that have an entry
    hmtx,           \* AsyncHashMapOnce: the task inside the map mutex
    started,        \* number of initializer futures polled so far
    hist,           \* history of the run, used to state the claims
    TASK,           \* deadlock.rs task-local TASK: the TaskData of a scope
    detector        \* tasks.rs DLDetector of one lock: Vec<Task>

vars == <<pc, op, cur, res, rg, qg, wg, scoped, nest, task, locks_held,
          await_lock_id, lock_id, ID, locked_tasks, mtx, rwl, value, seen, used,
          cell, hmap, hmtx, started, hist, TASK, detector>>

\* ------------------------------------------------------------ Vec helpers
\* Vec::swap_remove: the last element takes the place of the removed one
SwapRemove(s, i) ==
    [j \in 1..(Len(s) - 1) |-> IF j = i THEN s[Len(s)] ELSE s[j]]

\* Iterator::position: index of the first element equal to x, 0 if none
Position(s, x) ==
    IF \E i \in 1..Len(s) : s[i] = x
    THEN CHOOSE i \in 1..Len(s) : s[i] = x /\ \A j \in 1..(i - 1) : s[j] # x
    ELSE 0

\* number of elements of s equal to x
RECURSIVE Count(_, _)
Count(s, x) ==
    IF s = <<>> THEN 0
    ELSE (IF Head(s) = x THEN 1 ELSE 0) + Count(Tail(s), x)

\* slice::contains
Contains(s, x) == \E i \in 1..Len(s) : s[i] = x

\* ------------------------------------------------- raw tokio::sync::Mutex
\* A semaphore with one permit and a FIFO queue of waiters.  A release
\* hands the permit to the first waiter; try_lock takes it only when free.
MutexFree(m) == m.holder = NoTask

\* mutant: the MutexGuard of try_lock is dropped at once
MutexTryLockDropped(m, t) == m

MutexTryLock(m, t) == [m EXCEPT !.holder = t]

\* first poll of lock(): take the permit, or join the queue
MutexLock(m, t) ==
    IF MutexFree(m) THEN [m EXCEPT !.holder = t]
    ELSE [m EXCEPT !.queue = Append(@, t)]

\* drop of the MutexGuard
MutexUnlock(m) ==
    IF m.queue = <<>> THEN [m EXCEPT !.holder = NoTask]
    ELSE [holder |-> Head(m.queue), queue |-> Tail(m.queue)]

\* ------------------------------------------------ raw tokio::sync::RwLock
\* A semaphore whose permits a writer takes all of and a reader one of,
\* with a FIFO queue of waiters: fair, write-preferring.  A waiting writer
\* drains the free permits, so try_read / try_write fail while the queue is
\* not empty.
NoReaders(rw) == \A t \in DOMAIN rw.readers : rw.readers[t] = 0

CanRead(rw) == rw.writer = NoTask /\ rw.queue = <<>>

CanWrite(rw) == rw.writer = NoTask /\ NoReaders(rw) /\ rw.queue = <<>>

AddReader(rw, t) == [rw EXCEPT !.readers[t] = @ + 1]

\* hand released permits to the waiters at the head of the queue
RECURSIVE RwGrant(_)
RwGrant(rw) ==
    IF rw.queue = <<>> \/ rw.writer # NoTask THEN rw
    ELSE LET w == Head(rw.queue)
         IN IF w[2] = "r"
            THEN RwGrant([AddReader(rw, w[1]) EXCEPT !.queue = Tail(@)])
            ELSE IF NoReaders(rw)
                 THEN [rw EXCEPT !.writer = w[1], !.queue = Tail(@)]
                 ELSE rw

\* first poll of read(): take a permit, or join the queue
RwRead(rw, t) ==
    IF CanRead(rw) THEN AddReader(rw, t)
    ELSE [rw EXCEPT !.queue = Append(@, <<t, "r">>)]

\* first poll of write(): take all permits, or join the queue
RwWrite(rw, t) ==
    IF CanWrite(rw) THEN [rw EXCEPT !.writer = t]
    ELSE [rw EXCEPT !.queue = Append(@, <<t, "w">>)]

\* drop of a RwLockReadGuard / RwLockWriteGuard
RwReadUnlock(rw, t) == RwGrant([rw EXCEPT !.readers[t] = @ - 1])

RwWriteUnlock(rw) == RwGrant([rw EXCEPT !.writer = NoTask])

\* mutant: downgrade gives up the write lock and keeps no read permit
RwDowngradeDrop(rw, t) == RwGrant([rw EXCEPT !.writer = NoTask])

\* RwLockWriteGuard::downgrade: all permits but one are released at once
RwDowngrade(rw, t) ==
    RwGrant([rw EXCEPT !.writer = NoTask, !.readers[t] = @ + 1])

RwWaiting(rw, t) == \E i \in 1..Len(rw.queue) : rw.queue[i][1] = t

\* ---------------------------------------------------------- control flow
\* Flow[label] = <<next label on success, next label on failure / wait>>.
\* "done": the operation has returned and res[t] is its result.
Flow == [
    \* QueueRwLock::queue
    qu_try_mutex  |-> <<"qu_try_read", "qu_await">>,
    qu_try_read   |-> <<"qu_no_wait", "qu_unlock">>,
    qu_unlock     |-> <<"qu_await", "">>,
    qu_no_wait    |-> <<"done", "qu_err_read">>,
    qu_err_read   |-> <<"qu_err_mutex", "">>,
    qu_err_mutex  |-> <<"done", "">>,
    qu_await      |-> <<"qu_cas", "done">>,
    qu_cas        |-> <<"qu_lock", "done">>,
    qu_lock       |-> <<"qu_read", "qu_lock_wait">>,
    qu_lock_wait  |-> <<"qu_read", "">>,
    qu_read       |-> <<"qu_held", "qu_read_wait">>,
    qu_read_wait  |-> <<"qu_held", "">>,
    qu_held       |-> <<"qu_clear", "">>,
    qu_clear      |-> <<"done", "">>,
    \* QueueRwLock::read and RwLock::read
    rd_try_read   |-> <<"rd_no_wait", "rd_await">>,
    rd_no_wait    |-> <<"done", "rd_err_read">>,
    rd_err_read   |-> <<"done", "">>,
    rd_await      |-> <<"rd_cas", "done">>,
    rd_cas        |-> <<"rd_read", "done">>,
    rd_read       |-> <<"rd_held", "rd_read_wait">>,
    rd_read_wait  |-> <<"rd_held", "">>,
    rd_held       |-> <<"rd_clear", "">>,
    rd_clear      |-> <<"done", "">>,
    \* QueueRwLock::try_queue
    tq_try_mutex  |-> <<"tq_try_read", "done">>,
    tq_try_read   |-> <<"tq_no_wait", "tq_unlock">>,
    tq_unlock     |-> <<"done", "">>,
    tq_no_wait    |-> <<"done", "tq_err_read">>,
    tq_err_read   |-> <<"tq_err_mutex", "">>,
    tq_err_mutex  |-> <<"done", "">>,
    \* QueueRwLockQueueGuard::write
    wr_drop_active |-> <<"wr_drop_read", "">>,
    wr_drop_read  |-> <<"wr_try_write", "">>,
    wr_try_write  |-> <<"wr_fast_unlock", "wr_await">>,
    wr_fast_unlock |-> <<"wr_no_wait", "">>,
    wr_no_wait    |-> <<"done", "wr_err_write">>,
    wr_err_write  |-> <<"done", "">>,
    wr_await      |-> <<"wr_cas", "wr_err_mutex">>,
    wr_cas        |-> <<"wr_write", "wr_err_mutex">>,
    wr_err_mutex  |-> <<"done", "">>,
    wr_write      |-> <<"wr_slow_unlock", "wr_write_wait">>,
    wr_write_wait |-> <<"wr_slow_unlock", "">>,
    wr_slow_unlock |-> <<"wr_held", "">>,
    wr_held       |-> <<"wr_clear", "">>,
    wr_clear      |-> <<"done", "">>,
    \* QueueRwLockWriteGuard::read, ::queue and QueueRwLockReadGuard::queue
    wrd_rel_write |-> <<"wrd_drop_active", "">>,
    wrd_drop_active |-> <<"rd_try_read", "">>,
    wqu_rel_write |-> <<"wqu_drop_active", "">>,
    wqu_drop_active |-> <<"qu_try_mutex", "">>,
    rqu_drop_active |-> <<"rqu_rel_read", "">>,
    rqu_rel_read  |-> <<"qu_try_mutex", "">>,
    \* drop of a read / queue / write / mutex guard, fields in declared order
    dr_active     |-> <<"dr_read", "">>,
    dr_read       |-> <<"idle", "">>,
    dq_active     |-> <<"dq_mutex", "">>,
    dq_mutex      |-> <<"dq_read", "">>,
    dq_read       |-> <<"idle", "">>,
    dw_active     |-> <<"dw_write", "">>,
    dw_write      |-> <<"idle", "">>,
    dm_active     |-> <<"dm_mutex", "">>,
    dm_mutex      |-> <<"idle", "">>,
    \* RwLock::write
    rw_try_write  |-> <<"rw_no_wait", "rw_await">>,
    rw_no_wait    |-> <<"done", "rw_err_write">>,
    rw_err_write  |-> <<"done", "">>,
    rw_await      |-> <<"rw_cas", "done">>,
    rw_cas        |-> <<"rw_write", "done">>,
    rw_write      |-> <<"rw_held", "rw_write_wait">>,
    rw_write_wait |-> <<"rw_held", "">>,
    rw_held       |-> <<"rw_clear", "">>,
    rw_clear      |-> <<"done", "">>,
    \* async Mutex::lock
    mx_try_mutex  |-> <<"mx_no_wait", "mx_await">>,
    mx_no_wait    |-> <<"done", "mx_err_mutex">>,
    mx_err_mutex  |-> <<"done", "">>,
    mx_await      |-> <<"mx_cas", "done">>,
    mx_cas        |-> <<"mx_lock", "done">>,
    mx_lock       |-> <<"mx_held", "mx_lock_wait">>,
    mx_lock_wait  |-> <<"mx_held", "">>,
    mx_held       |-> <<"mx_clear", "">>,
    mx_clear      |-> <<"done", "">>,
    \* sync Mutex::lock, called from an async context
    sm_try_mutex  |-> <<"sm_no_wait", "sm_await">>,
    sm_no_wait    |-> <<"done", "sm_err_mutex">>,
    sm_err_mutex  |-> <<"done", "">>,
    sm_await      |-> <<"sm_cas", "done">>,
    sm_cas        |-> <<"sm_lock", "done">>,
    sm_lock       |-> <<"sm_held", "sm_timeout">>,
    sm_timeout    |-> <<"done", "">>,
    sm_held       |-> <<"sm_clear", "">>,
    sm_clear      |-> <<"done", "">>,
    \* sync RwLock::read
    sr_try_read   |-> <<"sr_no_wait", "sr_await">>,
    sr_no_wait    |-> <<"done", "sr_err_read">>,
    sr_err_read   |-> <<"done", "">>,
    sr_await      |-> <<"sr_cas", "done">>,
    sr_cas        |-> <<"sr_lock", "done">>,
    sr_lock       |-> <<"sr_held", "sr_timeout">>,
    sr_timeout    |-> <<"done", "">>,
    sr_held       |-> <<"sr_clear", "">>,
    sr_clear      |-> <<"done", "">>,
    \* sync RwLock::write
    sw_try_write  |-> <<"sw_no_wait", "sw_await">>,
    sw_no_wait    |-> <<"done", "sw_err_write">>,
    sw_err_write  |-> <<"done", "">>,
    sw_await      |-> <<"sw_cas", "done">>,
    sw_cas        |-> <<"sw_lock", "done">>,
    sw_lock       |-> <<"sw_held", "sw_timeout">>,
    sw_timeout    |-> <<"done", "">>,
    sw_held       |-> <<"sw_clear", "">>,
    sw_clear      |-> <<"done", "">>,
    \* AsyncOnceCell::get_or_init; the result of self.lock.lock().await is
    \* bound to `_`, so the guard (or the error) is dropped at once
    oc_get0       |-> <<"done", "done">>,
    oc_get1       |-> <<"done", "oc_try_mutex">>,
    oc_try_mutex  |-> <<"oc_no_wait", "oc_await">>,
    oc_no_wait    |-> <<"oc_drop_active", "oc_err_mutex">>,
    oc_err_mutex  |-> <<"oc_get2", "">>,
    oc_await      |-> <<"oc_cas", "oc_get2">>,
    oc_cas        |-> <<"oc_lock", "oc_get2">>,
    oc_lock       |-> <<"oc_held", "oc_lock_wait">>,
    oc_lock_wait  |-> <<"oc_held", "">>,
    oc_held       |-> <<"oc_clear", "">>,
    oc_clear      |-> <<"oc_drop_active", "">>,
    oc_drop_active |-> <<"oc_drop_mutex", "">>,
    oc_drop_mutex |-> <<"oc_get2", "">>,
    oc_get2       |-> <<"done", "oc_poll">>,
    oc_poll       |-> <<"oc_set", "">>,
    oc_set        |-> <<"done", "">>,
    \* AsyncHashMapOnce::get_or_init / get_or_try_init: get_or_create_cell,
    \* then the get_or_init / get_or_try_init of the cell
    hm_lock       |-> <<"hm_entry", "">>,
    hm_entry      |-> <<"hm_unlock", "">>,
    hm_unlock     |-> <<"oc_get1", "">>,
    \* AsyncHashMapOnce::get
    hg_lock       |-> <<"hg_get", "">>,
    hg_get        |-> <<"hg_unlock", "">>,
    hg_unlock     |-> <<"done", "">>,
    \* AsyncLoadRwLock::read_or_init / read_or_try_init: the probe ...
    ld_read       |-> <<"ld_probe", "ld_read_wait">>,
    ld_read_wait  |-> <<"ld_probe", "">>,
    ld_probe      |-> <<"done", "ld_rel_read">>,
    ld_rel_read   |-> <<"ld_write", "">>,
    \* ... and write_or_init / write_or_try_init, followed by downgrade
    ld_write      |-> <<"ld_check", "ld_write_wait">>,
    ld_write_wait |-> <<"ld_check", "">>,
    ld_check      |-> <<"ld_ret", "ld_poll">>,
    ld_poll       |-> <<"ld_store", "">>,
    ld_store      |-> <<"ld_ret", "ld_err_write">>,
    ld_err_write  |-> <<"done", "">>,
    ld_ret        |-> <<"done", "ld_downgrade">>,
    ld_downgrade  |-> <<"done", "">>,
    \* drop of an AsyncLoadRwLockReadGuard / AsyncLoadRwLockWriteGuard
    ldr_read      |-> <<"idle", "">>,
    ldw_write     |-> <<"idle", "">>,
    \* LockData::id: load, new_id, compare_exchange
    id_load       |-> <<"done", "id_new">>,
    id_new        |-> <<"id_cas", "">>,
    id_cas        |-> <<"done", "">>
]

\* mutant: the slow path of QueueRwLock::queue asks for the shared read
\* without self.mutex.lock().await
OkNextSkipLock(t) ==
    IF pc[t] = "qu_cas" THEN "qu_read" ELSE Flow[pc[t]][1]

\* mutant: QueueRwLockQueueGuard::write does not ask for the write lock
OkNextNoTryWrite(t) ==
    IF pc[t] = "wr_drop_read" THEN "wr_fast_unlock" ELSE Flow[pc[t]][1]

\* mutant: QueueRwLock::queue does not take the read lock
OkNextSkipRead(t) ==
    IF pc[t] = "qu_try_mutex" THEN "qu_no_wait"
    ELSE IF pc[t] \in {"qu_lock", "qu_lock_wait"} THEN "qu_held"
    ELSE Flow[pc[t]][1]

\* mutant: the slow path of QueueRwLockQueueGuard::write does not await
\* queue.rwlock.write()
OkNextSkipWrite(t) ==
    IF pc[t] = "wr_cas" THEN "wr_slow_unlock" ELSE Flow[pc[t]][1]

\* mutant: QueueRwLockQueueGuard::write drops self.mutex before it asks
\* for the write lock
OkNextEarlyUnlock(t) ==
    IF pc[t] = "wr_drop_read" THEN "wr_slow_unlock"
    ELSE IF pc[t] = "wr_slow_unlock" THEN "wr_try_write"
    ELSE Flow[pc[t]][1]

\* the step that follows the step at pc[t] when that step succeeds
OkNext(t) == Flow[pc[t]][1]

\* mutant: QueueRwLock::queue returns the error of new_no_wait with the
\* mutex and the read lock still held
ErrNextLeak(t) ==
    IF pc[t] = "qu_no_wait" THEN "done" ELSE Flow[pc[t]][2]

\* mutant: QueueRwLock::try_queue returns without dropping the MutexGuard
\* when try_read fails
ErrNextKeepMutex(t) ==
    IF pc[t] = "tq_try_read" THEN "done" ELSE Flow[pc[t]][2]

\* mutant: QueueRwLock::queue goes on to try_read although
\* self.mutex.try_lock() failed
ErrNextIgnoreMutex(t) ==
    IF pc[t] = "qu_try_mutex" THEN "qu_try_read" ELSE Flow[pc[t]][2]

\* mutant: QueueRwLock::queue keeps the MutexGuard of its fast path when
\* try_read fails and it goes on to the slow path
ErrNextHoldMutex(t) ==
    IF pc[t] = "qu_try_read" THEN "qu_await" ELSE Flow[pc[t]][2]

\* mutant: QueueRwLockQueueGuard::write returns the error of
\* LockAwaitGuard::new with self.mutex still locked
ErrNextWriteKeepsMutex(t) ==
    IF pc[t] \in {"wr_await", "wr_cas"} THEN "done" ELSE Flow[pc[t]][2]

\* the step that follows when it fails, or has to wait
ErrNext(t) == Flow[pc[t]][2]

\* the guard a successful operation hands to its caller
Grant == [
    qu_no_wait |-> "q", qu_clear |-> "q", tq_no_wait |-> "q",
    rd_no_wait |-> "r", rd_clear |-> "r",
    wr_no_wait |-> "w", wr_clear |-> "w",
    rw_no_wait |-> "w", rw_clear |-> "w",
    mx_no_wait |-> "w", mx_clear |-> "w",
    sm_no_wait |-> "w", sm_clear |-> "w",
    sr_no_wait |-> "r", sr_clear |-> "r",
    sw_no_wait |-> "w", sw_clear |-> "w",
    oc_no_wait |-> "", oc_clear |-> ""
]

\* labels of AsyncOnceCell::get_or_init, where the lock's result is dropped
OcLabels == {"oc_no_wait", "oc_await", "oc_cas", "oc_err_mutex"}

\* ------------------------------------------------------- detector state
\* LockData::id: the id is assigned from the static ID on first use
id(l) == IF lock_id[l] = 0 THEN ID ELSE lock_id[l]

\* the effect of LockData::id / new_id on lock_id and ID
AssignId(l) ==
    /\ lock_id' = [lock_id EXCEPT ![l] = id(l)]
    /\ ID' = IF lock_id[l] = 0 THEN ID + 1 ELSE ID

\* mutant: LockData::check_deadlock reports every holder of the lock
HolderAwaitsHeldAny(l, held) == locked_tasks[l] # <<>>

\* mutant: LockData::check_deadlock finds no holder that awaits a held lock
HolderAwaitsHeldNever(l, held) == FALSE

\* LockData::check_deadlock: some task holding the lock awaits a lock that
\* the requesting task holds
HolderAwaitsHeld(l, held) ==
    \E i \in 1..Len(locked_tasks[l]) :
        LET awaited == await_lock_id[locked_tasks[l][i]]
        IN awaited > 0 /\ Contains(held, awaited)

\* mutant: locks_held::check_deadlock without the lookup of the lock in
\* LOCKS_HELD
check_deadlockNoRecursion(t, l) ==
    IF ~scoped[t] THEN "NotDeadlockCheckFuture"
    ELSE IF HolderAwaitsHeld(l, locks_held[task[t]]) THEN "DeadlockDetected"
    ELSE "Ok"

\* locks_held::check_deadlock, the result of the pre-acquisition check
check_deadlock(t, l) ==
    IF ~scoped[t] THEN "NotDeadlockCheckFuture"
    ELSE IF Contains(locks_held[task[t]], id(l)) THEN "RecursiveLock"
    ELSE IF HolderAwaitsHeld(l, locks_held[task[t]]) THEN "DeadlockDetected"
    ELSE "Ok"

\* mutant: locks_held::add_lock does not push the id
add_lockNever(t, l) == locks_held' = locks_held

\* locks_held::add_lock and LockData::add_task
add_lock(t, l) ==
    locks_held' = [locks_held EXCEPT ![task[t]] = Append(@, id(l))]

add_task(t, l) ==
    locked_tasks' = [locked_tasks EXCEPT ![l] = Append(@, task[t])]

\* mutant: locks_held::remove_lock removes every entry of the id
remove_lockAll(t, l) ==
    locks_held' = IF scoped[t]
                  THEN [locks_held EXCEPT ![task[t]] =
                           SelectSeq(@, LAMBDA x : x # id(l))]
                  ELSE locks_held

\* locks_held::remove_lock and LockData::remove_task
remove_lock(t, l) ==
    LET i == Position(locks_held[task[t]], id(l))
    IN locks_held' = IF scoped[t] /\ i > 0
                     THEN [locks_held EXCEPT ![task[t]] = SwapRemove(@, i)]
                     ELSE locks_held

\* mutant: Drop for LockHeldGuard does not call LockData::remove_task
remove_taskNever(t, l) == locked_tasks' = locked_tasks

remove_task(t, l) ==
    LET i == Position(locked_tasks[l], task[t])
    IN locked_tasks' = IF i > 0
                       THEN [locked_tasks EXCEPT ![l] = SwapRemove(@, i)]
                       ELSE locked_tasks

\* ----------------------------------------------------------- bookkeeping
\* move task t to label next; an operation that ends without a result
\* (a drop) leaves the task idle
Step(t, next) ==
    /\ pc' = [pc EXCEPT ![t] = next]
    /\ op' = IF next = "idle" THEN [op EXCEPT ![t] = ""] ELSE op
    /\ cur' = IF next = "idle" THEN [cur EXCEPT ![t] = ""] ELSE cur

\* the result an operation returns for error e raised at label lb:
\* try_queue maps every failure to None, get_or_init drops the result
ErrRes(t, lb, e) ==
    IF lb \in OcLabels THEN res
    ELSE IF lb \in {"tq_try_mutex", "tq_unlock", "tq_no_wait"}
         THEN [res EXCEPT ![t] = "None"]
         ELSE [res EXCEPT ![t] = e]

\* hand guard g on lock l to task t
GiveGuard(t, l, g) ==
    /\ rg' = IF g = "r" THEN [rg EXCEPT ![t][l] = @ + 1] ELSE rg
    /\ qg' = IF g = "q" THEN [qg EXCEPT ![t][l] = TRUE] ELSE qg
    /\ wg' = IF g = "w" THEN [wg EXCEPT ![t][l] = TRUE] ELSE wg

\* the guards task t owns on lock l
Owned(t, l) == [r |-> rg[t][l], q |-> qg[t][l], w |-> wg[t][l]]

NoGuard == [r |-> 0, q |-> FALSE, w |-> FALSE]

guardVars == <<rg, qg, wg>>
detVars == <<locks_held, await_lock_id, lock_id, ID, locked_tasks>>
rawVars == <<mtx, rwl>>
mapVars == <<hmap, hmtx>>
onceVars == <<cell, started, mapVars>>
dlVars == <<TASK, detector>>
envVars == <<scoped, nest, task, used, hist, dlVars>>

\* ----------------------------------------------- steps on raw primitives
\* tokio Mutex::try_lock / parking_lot Mutex::try_lock
TryLockMutex(t) ==
    /\ pc[t] \in {"qu_try_mutex", "tq_try_mutex", "mx_try_mutex",
                  "sm_try_mutex", "oc_try_mutex"}
    /\ IF MutexFree(mtx[cur[t]])
       THEN /\ mtx' = [mtx EXCEPT ![cur[t]] = MutexTryLock(@, t)]
            /\ Step(t, OkNext(t))
            /\ res' = res
       ELSE /\ mtx' = mtx
            /\ Step(t, ErrNext(t))
            /\ res' = IF ErrNext(t) = "done" THEN ErrRes(t, pc[t], "None")
                      ELSE res
    /\ UNCHANGED <<guardVars, detVars, rwl, value, seen, onceVars, envVars>>

\* tokio RwLock::try_read
TryRead(t) ==
    /\ pc[t] \in {"qu_try_read", "tq_try_read", "rd_try_read",
                  "sr_try_read"}
    /\ IF CanRead(rwl[cur[t]])
       THEN /\ rwl' = [rwl EXCEPT ![cur[t]] = AddReader(@, t)]
            /\ Step(t, OkNext(t))
       ELSE /\ rwl' = rwl
            /\ Step(t, ErrNext(t))
    /\ UNCHANGED <<res, guardVars, detVars, mtx, value, seen, onceVars,
                   envVars>>

\* tokio RwLock::try_write
TryWrite(t) ==
    /\ pc[t] \in {"wr_try_write", "rw_try_write", "sw_try_write"}
    /\ IF CanWrite(rwl[cur[t]])
       THEN /\ rwl' = [rwl EXCEPT ![cur[t]].writer = t]
            /\ Step(t, OkNext(t))
       ELSE /\ rwl' = rwl
            /\ Step(t, ErrNext(t))
    /\ UNCHANGED <<res, guardVars, detVars, mtx, value, seen, onceVars,
                   envVars>>

\* first poll of tokio Mutex::lock().await
LockMutex(t) ==
    /\ pc[t] \in {"qu_lock", "mx_lock", "oc_lock"}
    /\ mtx' = [mtx EXCEPT ![cur[t]] = MutexLock(@, t)]
    /\ Step(t, IF MutexFree(mtx[cur[t]]) THEN OkNext(t) ELSE ErrNext(t))
    /\ UNCHANGED <<res, guardVars, detVars, rwl, value, seen, onceVars,
                   envVars>>

\* the task is woken with the mutex handed to it
MutexGranted(t) ==
    /\ pc[t] \in {"qu_lock_wait", "mx_lock_wait", "oc_lock_wait"}
    /\ mtx[cur[t]].holder = t
    /\ Step(t, OkNext(t))
    /\ UNCHANGED <<res, guardVars, detVars, rawVars, value, seen, onceVars,
                   envVars>>

\* first poll of tokio RwLock::read().await
AcquireRead(t) ==
    /\ pc[t] \in {"qu_read", "rd_read", "ld_read"}
    /\ rwl' = [rwl EXCEPT ![cur[t]] = RwRead(@, t)]
    /\ Step(t, IF CanRead(rwl[cur[t]]) THEN OkNext(t) ELSE ErrNext(t))
    /\ UNCHANGED <<res, guardVars, detVars, mtx, value, seen, onceVars,
                   envVars>>

ReadGranted(t) ==
    /\ pc[t] \in {"qu_read_wait", "rd_read_wait", "ld_read_wait"}
    /\ ~RwWaiting(rwl[cur[t]], t)
    /\ Step(t, OkNext(t))
    /\ UNCHANGED <<res, guardVars, detVars, rawVars, value, seen, onceVars,
                   envVars>>

\* first poll of tokio RwLock::write().await
AcquireWrite(t) ==
    /\ pc[t] \in {"wr_write", "rw_write", "ld_write"}
    /\ rwl' = [rwl EXCEPT ![cur[t]] = RwWrite(@, t)]
    /\ Step(t, IF CanWrite(rwl[cur[t]]) THEN OkNext(t) ELSE ErrNext(t))
    /\ UNCHANGED <<res, guardVars, detVars, mtx, value, seen, onceVars,
                   envVars>>

WriteGranted(t) ==
    /\ pc[t] \in {"wr_write_wait", "rw_write_wait", "ld_write_wait"}
    /\ ~RwWaiting(rwl[cur[t]], t)
    /\ Step(t, OkNext(t))
    /\ UNCHANGED <<res, guardVars, detVars, rawVars, value, seen, onceVars,
                   envVars>>

\* parking_lot Mutex::try_lock_for(50 ms): the lock is obtained ...
SyncLock(t) ==
    /\ pc[t] = "sm_lock"
    /\ MutexFree(mtx[cur[t]])
    /\ mtx' = [mtx EXCEPT ![cur[t]] = MutexTryLock(@, t)]
    /\ Step(t, OkNext(t))
    /\ UNCHANGED <<res, guardVars, detVars, rwl, value, seen, onceVars,
                   envVars>>

\* parking_lot RwLock::try_read_for(50 ms): the lock is obtained
SyncRead(t) ==
    /\ pc[t] = "sr_lock"
    /\ CanRead(rwl[cur[t]])
    /\ rwl' = [rwl EXCEPT ![cur[t]] = AddReader(@, t)]
    /\ Step(t, OkNext(t))
    /\ UNCHANGED <<res, guardVars, detVars, mtx, value, seen, onceVars,
                   envVars>>

\* parking_lot RwLock::try_write_for(50 ms): the lock is obtained
SyncWrite(t) ==
    /\ pc[t] = "sw_lock"
    /\ CanWrite(rwl[cur[t]])
    /\ rwl' = [rwl EXCEPT ![cur[t]].writer = t]
    /\ Step(t, OkNext(t))
    /\ UNCHANGED <<res, guardVars, detVars, mtx, value, seen, onceVars,
                   envVars>>

\* the raw lock of the request of task t cannot be taken
SyncBlocked(t) ==
    \/ pc[t] = "sm_lock" /\ ~MutexFree(mtx[cur[t]])
    \/ pc[t] = "sr_lock" /\ ~CanRead(rwl[cur[t]])
    \/ pc[t] = "sw_lock" /\ ~CanWrite(rwl[cur[t]])

\* mutant: the timeout returns without dropping the LockAwaitGuard
SyncTimeoutLeak(t) ==
    /\ SyncBlocked(t)
    /\ Step(t, "done")
    /\ res' = [res EXCEPT ![t] = "SyncLockTimeout"]
    /\ UNCHANGED <<guardVars, detVars, rawVars, value, seen, onceVars,
                   envVars>>

\* ... or it is still held by another task when the 50 ms are over:
\* Err(Error::sync_lock_timeout), then `wait` is dropped
SyncTimeout(t) ==
    /\ SyncBlocked(t)
    /\ Step(t, ErrNext(t))
    /\ res' = [res EXCEPT ![t] = "SyncLockTimeout"]
    /\ UNCHANGED <<guardVars, detVars, rawVars, value, seen, onceVars,
                   envVars>>

\* drop of a raw MutexGuard
RelMutex(t) ==
    /\ pc[t] \in {"qu_unlock", "qu_err_mutex", "tq_unlock", "tq_err_mutex",
                  "wr_fast_unlock", "wr_err_mutex", "wr_slow_unlock",
                  "dq_mutex", "dm_mutex", "mx_err_mutex", "sm_err_mutex",
                  "oc_err_mutex", "oc_drop_mutex"}
    /\ mtx' = [mtx EXCEPT ![cur[t]] = MutexUnlock(@)]
    /\ Step(t, OkNext(t))
    /\ res' = IF pc[t] = "tq_unlock" THEN ErrRes(t, pc[t], "None") ELSE res
    /\ UNCHANGED <<guardVars, detVars, rwl, value, seen, onceVars, envVars>>

\* drop of a raw RwLockReadGuard
RelRead(t) ==
    /\ pc[t] \in {"qu_err_read", "rd_err_read", "tq_err_read",
                  "wr_drop_read", "rqu_rel_read", "dr_read", "dq_read",
                  "ld_rel_read", "ldr_read", "sr_err_read"}
    /\ rwl' = [rwl EXCEPT ![cur[t]] = RwReadUnlock(@, t)]
    /\ Step(t, OkNext(t))
    /\ UNCHANGED <<res, guardVars, detVars, mtx, value, seen, onceVars,
                   envVars>>

\* drop of a raw RwLockWriteGuard
RelWrite(t) ==
    /\ pc[t] \in {"wr_err_write", "rw_err_write", "wrd_rel_write",
                  "wqu_rel_write", "dw_write", "ld_err_write", "ldw_write",
                  "sw_err_write"}
    /\ rwl' = [rwl EXCEPT ![cur[t]] = RwWriteUnlock(@)]
    /\ Step(t, OkNext(t))
    /\ UNCHANGED <<res, guardVars, detVars, mtx, value, seen, onceVars,
                   envVars>>

\* ------------------------------------------------ steps of the detector
\* LockHeldGuard::new_no_wait: task::current()?, then new_imp registers
\* the hold; no check_deadlock on this path
NewNoWait(t) ==
    /\ pc[t] \in {"qu_no_wait", "rd_no_wait", "tq_no_wait", "wr_no_wait",
                  "rw_no_wait", "mx_no_wait", "sm_no_wait", "oc_no_wait",
                  "sr_no_wait", "sw_no_wait"}
    /\ IF scoped[t]
       THEN /\ add_lock(t, cur[t])
            /\ AssignId(cur[t])
            /\ add_task(t, cur[t])
            /\ Step(t, OkNext(t))
            /\ GiveGuard(t, cur[t], Grant[pc[t]])
            /\ res' = IF OkNext(t) = "done" THEN [res EXCEPT ![t] = "Ok"]
                      ELSE res
       ELSE /\ Step(t, ErrNext(t))
            /\ res' = ErrRes(t, pc[t], "NotDeadlockCheckFuture")
            /\ UNCHANGED <<locks_held, lock_id, ID, locked_tasks, guardVars>>
    /\ UNCHANGED <<await_lock_id, rawVars, value, seen, onceVars, envVars>>

\* LockAwaitGuard::new, first part: locks_held::check_deadlock
AwaitNew(t) ==
    /\ pc[t] \in {"qu_await", "rd_await", "wr_await", "rw_await",
                  "mx_await", "sm_await", "oc_await", "sr_await",
                  "sw_await"}
    /\ LET r == check_deadlock(t, cur[t])
       IN /\ IF r = "Ok"
             THEN Step(t, OkNext(t)) /\ res' = res
             ELSE Step(t, ErrNext(t)) /\ res' = ErrRes(t, pc[t], r)
          /\ IF scoped[t] THEN AssignId(cur[t])
             ELSE UNCHANGED <<lock_id, ID>>
    /\ UNCHANGED <<guardVars, locks_held, await_lock_id, locked_tasks,
                   rawVars, value, seen, onceVars, envVars>>

\* mutant: Task::set_await_lock_id stores the id without comparing
SetAwaitStore(t) ==
    /\ pc[t] \in {"qu_cas", "rd_cas", "wr_cas", "rw_cas", "mx_cas",
                  "sm_cas", "oc_cas", "sr_cas", "sw_cas"}
    /\ await_lock_id' = [await_lock_id EXCEPT ![task[t]] = id(cur[t])]
    /\ AssignId(cur[t])
    /\ Step(t, OkNext(t))
    /\ UNCHANGED <<res, guardVars, locks_held, locked_tasks, rawVars, value,
                   seen, onceVars, envVars>>

\* LockAwaitGuard::new, second part: task::current()? and
\* Task::set_await_lock_id, a compare-and-swap 0 -> id
SetAwait(t) ==
    /\ pc[t] \in {"qu_cas", "rd_cas", "wr_cas", "rw_cas", "mx_cas",
                  "sm_cas", "oc_cas", "sr_cas", "sw_cas"}
    /\ IF scoped[t] /\ await_lock_id[task[t]] = 0
       THEN /\ await_lock_id' =
                 [await_lock_id EXCEPT ![task[t]] = id(cur[t])]
            /\ AssignId(cur[t])
            /\ Step(t, OkNext(t))
            /\ res' = res
       ELSE /\ Step(t, ErrNext(t))
            /\ res' = ErrRes(t, pc[t], IF scoped[t] THEN "DeadlockDetected"
                                       ELSE "NotDeadlockCheckFuture")
            /\ UNCHANGED <<await_lock_id, lock_id, ID>>
    /\ UNCHANGED <<guardVars, locks_held, locked_tasks, rawVars, value,
                   seen, onceVars, envVars>>

\* LockHeldGuard::new(wait): new_imp registers the hold; the LockAwaitGuard
\* passed by value is still alive
HeldNew(t) ==
    /\ pc[t] \in {"qu_held", "rd_held", "wr_held", "rw_held", "mx_held",
                  "sm_held", "oc_held", "sr_held", "sw_held"}
    /\ add_lock(t, cur[t])
    /\ AssignId(cur[t])
    /\ add_task(t, cur[t])
    /\ Step(t, OkNext(t))
    /\ UNCHANGED <<res, guardVars, await_lock_id, rawVars, value, seen,
                   onceVars, envVars>>

\* Drop for LockAwaitGuard: Task::clear_await_lock_id; at the end of
\* LockHeldGuard::new the caller gets its guard
AwaitDrop(t) ==
    /\ pc[t] \in {"qu_clear", "rd_clear", "wr_clear", "rw_clear",
                  "mx_clear", "sm_clear", "oc_clear", "sr_clear",
                  "sw_clear", "sm_timeout", "sr_timeout", "sw_timeout"}
    /\ await_lock_id' = [await_lock_id EXCEPT ![task[t]] = 0]
    /\ Step(t, OkNext(t))
    /\ IF pc[t] \in {"sm_timeout", "sr_timeout", "sw_timeout"}
       THEN UNCHANGED <<res, guardVars>>
       ELSE /\ GiveGuard(t, cur[t], Grant[pc[t]])
            /\ res' = IF OkNext(t) = "done" THEN [res EXCEPT ![t] = "Ok"]
                      ELSE res
    /\ UNCHANGED <<locks_held, lock_id, ID, locked_tasks, rawVars, value,
                   seen, onceVars, envVars>>

\* Drop for LockHeldGuard: locks_held::remove_lock, LockData::remove_task
HeldDrop(t) ==
    /\ pc[t] \in {"wr_drop_active", "wrd_drop_active", "wqu_drop_active",
                  "rqu_drop_active", "dr_active", "dq_active", "dw_active",
                  "dm_active", "oc_drop_active"}
    /\ remove_lock(t, cur[t])
    /\ AssignId(cur[t])
    /\ remove_task(t, cur[t])
    /\ Step(t, OkNext(t))
    /\ UNCHANGED <<res, guardVars, await_lock_id, rawVars, value, seen,
                   onceVars, envVars>>

\* deadlock.rs enum TaskData { Read(usize), Write }
Read(v) == [kind |-> "Read", v |-> v]

Write == [kind |-> "Write", v |-> 0]

\* Default for TaskData
TaskDataDefault == Read(0)

\* the caller takes the result of the operation
Return(t) ==
    /\ pc[t] = "done"
    /\ pc' = [pc EXCEPT ![t] = "idle"]
    /\ op' = [op EXCEPT ![t] = ""]
    /\ cur' = [cur EXCEPT ![t] = ""]
    /\ res' = [res EXCEPT ![t] = ""]
    /\ seen' = [seen EXCEPT ![t] = 0]
    /\ hist' = [hist EXCEPT !.blocker[t] = NoTask, !.wrote[t] = 0,
                             !.pre[t] = NoGuard, !.closes[t] = FALSE,
                             !.was[t] = TaskDataDefault,
                             !.found[t] = <<>>, !.req[t] = "",
                             !.inner[t] = IF res[t] = "Ok" /\ nest[t] >= 2
                                          THEN @ \cup {cur[t]} ELSE @]
    /\ UNCHANGED <<guardVars, detVars, rawVars, value, onceVars, scoped,
                   nest, task, used, dlVars>>

\* ------------------------------------------------- calls made by a task
\* task a is in QueueHeld, in the Queue -> Write transition or in WriteHeld
\* on l (the raw write lock counts until it is released)
InQueueOrWrite(a, l) ==
    \/ qg[a][l]
    \/ wg[a][l]
    \/ /\ cur[a] = l
       /\ pc[a] \in {"wr_drop_active", "wr_drop_read", "wr_try_write",
                     "wr_fast_unlock", "wr_no_wait", "wr_await", "wr_cas",
                     "wr_write", "wr_write_wait", "wr_slow_unlock",
                     "wr_held", "wr_clear", "mod_store"}

\* task a owns the Queue guard on l, is suspended in queue() on a lock
\* whose Queue guard task t owns
SuspendedOnLockOf(a, t, l) ==
    /\ qg[a][l]
    /\ pc[a] = "qu_lock_wait"
    /\ qg[t][cur[a]]

\* begin operation o on lock l at label first; hist.pre[t] keeps the guards
\* the task owns on l at the call, hist.blocker[t] the task that is in
\* QueueHeld, in transition or in WriteHeld at a call of queue(),
\* hist.closes[t] whether the call of queue() closes a two-lock cycle,
\* hist.inner[t] the locks on which t owns a guard acquired inside a nested
\* with_deadlock_check
Call(t, l, o, first) ==
    /\ pc[t] = "idle"
    /\ l \in used
    /\ pc' = [pc EXCEPT ![t] = first]
    /\ op' = [op EXCEPT ![t] = o]
    /\ cur' = [cur EXCEPT ![t] = l]
    /\ hist' = [hist EXCEPT
                  !.pre[t] = IF o = "drop" THEN NoGuard ELSE Owned(t, l),
                  !.closes[t] = /\ o = "queue"
                                /\ \E a \in DOMAIN pc \ {t} :
                                       SuspendedOnLockOf(a, t, l),
                  !.blocker[t] =
                      IF o = "queue"
                         /\ \E a \in DOMAIN pc \ {t} : InQueueOrWrite(a, l)
                      THEN CHOOSE a \in DOMAIN pc \ {t} :
                               InQueueOrWrite(a, l)
                      ELSE NoTask,
                  !.inner[t] =
                      IF o = "drop"
                         /\ rg[t][l] + (IF qg[t][l] THEN 1 ELSE 0)
                               + (IF wg[t][l] THEN 1 ELSE 0) = 1
                      THEN @ \ {l} ELSE @]
    /\ UNCHANGED <<res, detVars, rawVars, value, seen, onceVars, scoped,
                   nest, task, used, dlVars>>

\* QueueRwLock::queue
StartQueue(t, l) ==
    /\ l \in QueueLocks
    /\ Call(t, l, "queue", "qu_try_mutex")
    /\ UNCHANGED guardVars

\* QueueRwLock::read and RwLock::read
StartRead(t, l) ==
    /\ l \in QueueLocks \cup RwLocks
    /\ rg[t][l] < MaxReads
    /\ Call(t, l, "read", "rd_try_read")
    /\ UNCHANGED guardVars

\* QueueRwLock::try_queue
StartTryQueue(t, l) ==
    /\ l \in QueueLocks
    /\ Call(t, l, "try_queue", "tq_try_mutex")
    /\ UNCHANGED guardVars

\* QueueRwLockQueueGuard::write consumes the Queue guard
StartWrite(t, l) ==
    /\ qg[t][l]
    /\ Call(t, l, "write", "wr_drop_active")
    /\ qg' = [qg EXCEPT ![t][l] = FALSE]
    /\ UNCHANGED <<rg, wg>>

\* QueueRwLockWriteGuard::read consumes the Write guard
StartWriteToRead(t, l) ==
    /\ l \in QueueLocks
    /\ wg[t][l]
    /\ rg[t][l] < MaxReads
    /\ Call(t, l, "write_read", "wrd_rel_write")
    /\ wg' = [wg EXCEPT ![t][l] = FALSE]
    /\ UNCHANGED <<rg, qg>>

\* QueueRwLockWriteGuard::queue consumes the Write guard
StartWriteToQueue(t, l) ==
    /\ l \in QueueLocks
    /\ wg[t][l]
    /\ Call(t, l, "write_queue", "wqu_rel_write")
    /\ wg' = [wg EXCEPT ![t][l] = FALSE]
    /\ UNCHANGED <<rg, qg>>

\* QueueRwLockReadGuard::queue consumes a Read guard
StartReadToQueue(t, l) ==
    /\ l \in QueueLocks
    /\ rg[t][l] > 0
    /\ Call(t, l, "read_queue", "rqu_drop_active")
    /\ rg' = [rg EXCEPT ![t][l] = @ - 1]
    /\ UNCHANGED <<qg, wg>>

\* RwLock::write
StartRwWrite(t, l) ==
    /\ l \in RwLocks
    /\ Call(t, l, "write", "rw_try_write")
    /\ UNCHANGED guardVars

\* async Mutex::lock
StartLock(t, l) ==
    /\ l \in MutexLocks
    /\ Call(t, l, "lock", "mx_try_mutex")
    /\ UNCHANGED guardVars

\* sync Mutex::lock
StartSyncLock(t, l) ==
    /\ l \in SyncMutexLocks
    /\ Call(t, l, "lock", "sm_try_mutex")
    /\ UNCHANGED guardVars

\* sync RwLock::read
StartSyncRead(t, l) ==
    /\ l \in SyncRwLocks
    /\ rg[t][l] < MaxReads
    /\ Call(t, l, "read", "sr_try_read")
    /\ UNCHANGED guardVars

\* sync RwLock::write
StartSyncWrite(t, l) ==
    /\ l \in SyncRwLocks
    /\ Call(t, l, "write", "sw_try_write")
    /\ UNCHANGED guardVars

\* a Read guard goes out of scope
DropRead(t, l) ==
    /\ rg[t][l] > 0
    /\ Call(t, l, "drop", "dr_active")
    /\ rg' = [rg EXCEPT ![t][l] = @ - 1]
    /\ UNCHANGED <<qg, wg>>

\* a Queue guard goes out of scope
DropQueue(t, l) ==
    /\ qg[t][l]
    /\ Call(t, l, "drop", "dq_active")
    /\ qg' = [qg EXCEPT ![t][l] = FALSE]
    /\ UNCHANGED <<rg, wg>>

\* a Write guard of a QueueRwLock or RwLock goes out of scope
DropWrite(t, l) ==
    /\ l \in QueueLocks \cup RwLocks \cup SyncRwLocks
    /\ wg[t][l]
    /\ Call(t, l, "drop", "dw_active")
    /\ wg' = [wg EXCEPT ![t][l] = FALSE]
    /\ UNCHANGED <<rg, qg>>

\* a MutexGuard goes out of scope
DropMutex(t, l) ==
    /\ l \in MutexLocks \cup SyncMutexLocks
    /\ wg[t][l]
    /\ Call(t, l, "drop", "dm_active")
    /\ wg' = [wg EXCEPT ![t][l] = FALSE]
    /\ UNCHANGED <<rg, qg>>

\* DerefMut on a Write guard: the task reads the value ...
StartModify(t, l) ==
    /\ l \in QueueLocks \cup RwLocks
    /\ wg[t][l]
    /\ pc[t] = "idle"
    /\ l \in used
    /\ pc' = [pc EXCEPT ![t] = "mod_store"]
    /\ op' = [op EXCEPT ![t] = "modify"]
    /\ cur' = [cur EXCEPT ![t] = l]
    /\ seen' = [seen EXCEPT ![t] = value[l]]
    /\ UNCHANGED <<res, guardVars, detVars, rawVars, value, onceVars,
                   envVars>>

\* ... and stores the modified value
ModStore(t) ==
    /\ pc[t] = "mod_store"
    /\ value' = [value EXCEPT ![cur[t]] = seen[t] + 1]
    /\ seen' = [seen EXCEPT ![t] = 0]
    /\ hist' = [hist EXCEPT
                  !.wrote = [b \in DOMAIN pc |->
                               IF hist.blocker[b] = t THEN seen[t] + 1
                               ELSE hist.wrote[b]],
                  !.modified[t] = TRUE]
    /\ Step(t, "idle")
    /\ UNCHANGED <<res, guardVars, detVars, rawVars, onceVars, scoped,
                   nest, task, used, dlVars>>

\* -------------------------------------------------------- AsyncOnceCell
\* the result Err(e) of an initializer future, as a value of seen[t]
InitErr == 0 - 1

\* AsyncOnceCell::get_or_init
StartGetOrInit(t) ==
    /\ Call(t, "OC", "get_or_init", "oc_get1")
    /\ UNCHANGED guardVars

\* AsyncOnceCell::get_or_try_init
StartGetOrTryInit(t) ==
    /\ Call(t, "OC", "get_or_try_init", "oc_get1")
    /\ UNCHANGED guardVars

\* AsyncOnceCell::get
StartGet(t) ==
    /\ Call(t, "OC", "get", "oc_get0")
    /\ UNCHANGED guardVars

\* self.cell.get(): in get, and before and after the lock in get_or_init
\* and get_or_try_init
OnceGet(t) ==
    /\ pc[t] \in {"oc_get0", "oc_get1", "oc_get2"}
    /\ IF cell[cur[t]] # 0
       THEN /\ Step(t, OkNext(t))
            /\ seen' = [seen EXCEPT ![t] = cell[cur[t]]]
            /\ res' = [res EXCEPT ![t] = "Ok"]
       ELSE /\ Step(t, ErrNext(t))
            /\ seen' = seen
            /\ res' = IF pc[t] = "oc_get0" THEN [res EXCEPT ![t] = "None"]
                      ELSE res
    /\ UNCHANGED <<guardVars, detVars, rawVars, value, onceVars, envVars>>

\* f.await, first poll: the initializer starts; it increments a counter and
\* will return it, or (get_or_try_init) it will return an error
InitPoll(t) ==
    /\ pc[t] = "oc_poll"
    /\ started' = started + 1
    /\ \/ seen' = [seen EXCEPT ![t] = started + 1]
       \/ /\ op[t] = "get_or_try_init"
          /\ started < MaxFails
          /\ seen' = [seen EXCEPT ![t] = InitErr]
    /\ Step(t, OkNext(t))
    /\ UNCHANGED <<res, guardVars, detVars, rawVars, value, cell, mapVars,
                   envVars>>

\* mutant: the value of a completed initializer replaces the value of the
\* cell
InitSetOverwrite(t) ==
    /\ pc[t] = "oc_set"
    /\ cell' = [cell EXCEPT ![cur[t]] =
                   IF seen[t] # InitErr THEN seen[t] ELSE @]
    /\ seen' = [seen EXCEPT ![t] = cell'[cur[t]]]
    /\ res' = [res EXCEPT ![t] = IF cell'[cur[t]] = 0 THEN "InitError"
                                 ELSE "Ok"]
    /\ Step(t, OkNext(t))
    /\ UNCHANGED <<guardVars, detVars, rawVars, value, started, mapVars,
                   envVars>>

\* the initializer completes with r; OnceCell::get_or_init(|| v) and
\* OnceCell::get_or_try_init(|| r) return the value of the cell if it is
\* set, without looking at r; otherwise they store Ok(v) and return it, or
\* return Err(e) and leave the cell empty
InitSet(t) ==
    /\ pc[t] = "oc_set"
    /\ cell' = [cell EXCEPT ![cur[t]] =
                   IF @ = 0 /\ seen[t] # InitErr THEN seen[t] ELSE @]
    /\ seen' = [seen EXCEPT ![t] = cell'[cur[t]]]
    /\ res' = [res EXCEPT ![t] = IF cell'[cur[t]] = 0 THEN "InitError"
                                 ELSE "Ok"]
    /\ Step(t, OkNext(t))
    /\ UNCHANGED <<guardVars, detVars, rawVars, value, started, mapVars,
                   envVars>>

\* ----------------------------------------------------- AsyncHashMapOnce
\* AsyncHashMapOnce::get_or_init(key, init)
StartMapGetOrInit(t, k) ==
    /\ k \in OnceKeys
    /\ Call(t, k, "get_or_init", "hm_lock")
    /\ UNCHANGED guardVars

\* AsyncHashMapOnce::get_or_try_init(key, init)
StartMapGetOrTryInit(t, k) ==
    /\ k \in OnceKeys
    /\ Call(t, k, "get_or_try_init", "hm_lock")
    /\ UNCHANGED guardVars

\* AsyncHashMapOnce::get(key)
StartMapGet(t, k) ==
    /\ k \in OnceKeys
    /\ Call(t, k, "get", "hg_lock")
    /\ UNCHANGED guardVars

\* self.0.lock(): parking_lot::Mutex, the thread waits until it is free
HmLock(t) ==
    /\ pc[t] \in {"hm_lock", "hg_lock"}
    /\ hmtx = NoTask
    /\ hmtx' = t
    /\ Step(t, OkNext(t))
    /\ UNCHANGED <<res, guardVars, detVars, rawVars, value, seen, cell,
                   started, hmap, envVars>>

\* mutant: get_or_create_cell inserts a new empty cell for the key whether
\* or not the map has one
HmEntryFresh(t) ==
    /\ pc[t] = "hm_entry"
    /\ hmap' = hmap \cup {cur[t]}
    /\ cell' = [cell EXCEPT ![cur[t]] = 0]
    /\ hist' = [hist EXCEPT !.cells[cur[t]] = @ + 1]
    /\ Step(t, OkNext(t))
    /\ UNCHANGED <<res, guardVars, detVars, rawVars, value, seen,
                   started, hmtx, scoped, nest, task, used, dlVars>>

\* get_or_create_cell: .entry(key).or_insert_with(|| raw(AsyncOnceCell::new()))
\* hist.cells[k] counts the cells created for key k
HmEntry(t) ==
    /\ pc[t] = "hm_entry"
    /\ hmap' = hmap \cup {cur[t]}
    /\ hist' = [hist EXCEPT !.cells[cur[t]] =
                                IF cur[t] \in hmap THEN @ ELSE @ + 1]
    /\ Step(t, OkNext(t))
    /\ UNCHANGED <<res, guardVars, detVars, rawVars, value, seen, cell,
                   started, hmtx, scoped, nest, task, used, dlVars>>

\* get: .get(key).and_then(|v| unsafe { &**v }.get())
HmGet(t) ==
    /\ pc[t] = "hg_get"
    /\ IF cur[t] \in hmap /\ cell[cur[t]] # 0
       THEN /\ seen' = [seen EXCEPT ![t] = cell[cur[t]]]
            /\ res' = [res EXCEPT ![t] = "Ok"]
       ELSE /\ seen' = seen
            /\ res' = [res EXCEPT ![t] = "None"]
    /\ Step(t, OkNext(t))
    /\ UNCHANGED <<guardVars, detVars, rawVars, value, onceVars, envVars>>

\* mutant: the MutexGuard of the map is not dropped at the end of
\* get_or_create_cell / get
HmUnlockNever(t) ==
    /\ pc[t] \in {"hm_unlock", "hg_unlock"}
    /\ Step(t, OkNext(t))
    /\ UNCHANGED <<res, guardVars, detVars, rawVars, value, seen, onceVars,
                   envVars>>

\* the temporary MutexGuard is dropped when get_or_create_cell / get
\* returns
HmUnlock(t) ==
    /\ pc[t] \in {"hm_unlock", "hg_unlock"}
    /\ hmtx' = NoTask
    /\ Step(t, OkNext(t))
    /\ UNCHANGED <<res, guardVars, detVars, rawVars, value, seen, cell,
                   started, hmap, envVars>>

\* ------------------------------------------------------ AsyncLoadRwLock
\* the value of an AsyncLoadRwLock is value[l]: 0 is None, v > 0 is Some(v)
LoadOps ==
    {"read_or_init", "read_or_try_init", "write_or_init",
     "write_or_try_init"}

\* AsyncLoadRwLock::read_or_init
StartReadOrInit(t, l) ==
    /\ l \in LoadLocks
    /\ rg[t][l] = 0 /\ ~wg[t][l]
    /\ Call(t, l, "read_or_init", "ld_read")
    /\ UNCHANGED guardVars

\* AsyncLoadRwLock::read_or_try_init
StartReadOrTryInit(t, l) ==
    /\ l \in LoadLocks
    /\ rg[t][l] = 0 /\ ~wg[t][l]
    /\ Call(t, l, "read_or_try_init", "ld_read")
    /\ UNCHANGED guardVars

\* AsyncLoadRwLock::write_or_init
StartWriteOrInit(t, l) ==
    /\ l \in LoadLocks
    /\ rg[t][l] = 0 /\ ~wg[t][l]
    /\ Call(t, l, "write_or_init", "ld_write")
    /\ UNCHANGED guardVars

\* AsyncLoadRwLock::write_or_try_init
StartWriteOrTryInit(t, l) ==
    /\ l \in LoadLocks
    /\ rg[t][l] = 0 /\ ~wg[t][l]
    /\ Call(t, l, "write_or_try_init", "ld_write")
    /\ UNCHANGED guardVars

\* read_or_init: if guard.is_some() the read guard is returned, otherwise
\* it is dropped at the end of the block
LoadProbe(t) ==
    /\ pc[t] = "ld_probe"
    /\ IF value[cur[t]] # 0
       THEN /\ Step(t, OkNext(t))
            /\ GiveGuard(t, cur[t], "r")
            /\ seen' = [seen EXCEPT ![t] = value[cur[t]]]
            /\ res' = [res EXCEPT ![t] = "Ok"]
       ELSE /\ Step(t, ErrNext(t))
            /\ UNCHANGED <<guardVars, seen, res>>
    /\ UNCHANGED <<detVars, rawVars, value, onceVars, envVars>>

\* mutant: write_or_init awaits the initializer whether or not a value is
\* stored
LoadCheckAlways(t) ==
    /\ pc[t] = "ld_check"
    /\ Step(t, ErrNext(t))
    /\ UNCHANGED <<res, guardVars, detVars, rawVars, value, seen, onceVars,
                   envVars>>

\* write_or_init: if guard.is_none() the initializer is awaited
LoadCheck(t) ==
    /\ pc[t] = "ld_check"
    /\ Step(t, IF value[cur[t]] # 0 THEN OkNext(t) ELSE ErrNext(t))
    /\ UNCHANGED <<res, guardVars, detVars, rawVars, value, seen, onceVars,
                   envVars>>

\* f.await, first poll, under the write lock: the initializer will return a
\* new value, or (the _or_try_init variants) an error
LoadPoll(t) ==
    /\ pc[t] = "ld_poll"
    /\ started' = started + 1
    /\ \/ seen' = [seen EXCEPT ![t] = started + 1]
       \/ /\ op[t] \in {"read_or_try_init", "write_or_try_init"}
          /\ started < MaxFails
          /\ seen' = [seen EXCEPT ![t] = InitErr]
    /\ Step(t, OkNext(t))
    /\ UNCHANGED <<res, guardVars, detVars, rawVars, value, cell, mapVars,
                   envVars>>

\* the initializer completes: *guard = Some(v), or the error is returned
\* and the write guard dropped
LoadStore(t) ==
    /\ pc[t] = "ld_store"
    /\ IF seen[t] # InitErr
       THEN /\ value' = [value EXCEPT ![cur[t]] = seen[t]]
            /\ Step(t, OkNext(t))
            /\ res' = res
       ELSE /\ value' = value
            /\ Step(t, ErrNext(t))
            /\ res' = [res EXCEPT ![t] = "InitError"]
    /\ UNCHANGED <<guardVars, detVars, rawVars, seen, onceVars, envVars>>

\* write_or_init returns its guard: to the caller, or to read_or_init
LoadReturn(t) ==
    /\ pc[t] = "ld_ret"
    /\ seen' = [seen EXCEPT ![t] = value[cur[t]]]
    /\ IF op[t] \in {"write_or_init", "write_or_try_init"}
       THEN /\ Step(t, OkNext(t))
            /\ GiveGuard(t, cur[t], "w")
            /\ res' = [res EXCEPT ![t] = "Ok"]
       ELSE /\ Step(t, ErrNext(t))
            /\ UNCHANGED <<guardVars, res>>
    /\ UNCHANGED <<detVars, rawVars, value, onceVars, envVars>>

\* AsyncLoadRwLockWriteGuard::downgrade
LoadDowngrade(t) ==
    /\ pc[t] = "ld_downgrade"
    /\ rwl' = [rwl EXCEPT ![cur[t]] = RwDowngrade(@, t)]
    /\ Step(t, OkNext(t))
    /\ GiveGuard(t, cur[t], "r")
    /\ res' = [res EXCEPT ![t] = "Ok"]
    /\ UNCHANGED <<detVars, mtx, value, seen, onceVars, envVars>>

\* the future of read_or_init / write_or_init (or a try variant) is dropped
\* while suspended in self.0.read().await, self.0.write().await or f.await:
\* the acquire future leaves the queue of the RwLock, a guard local is
\* dropped, the Option is not assigned
LoadCancel(t) ==
    /\ pc[t] \in {"ld_read_wait", "ld_write_wait", "ld_store"}
    /\ pc[t] = "ld_store" => started <= MaxFails
    /\ rwl' = [rwl EXCEPT ![cur[t]] =
                  IF RwWaiting(@, t)
                  THEN RwGrant([@ EXCEPT !.queue =
                                    SelectSeq(@, LAMBDA w : w[1] # t)])
                  ELSE IF pc[t] = "ld_read_wait" THEN RwReadUnlock(@, t)
                  ELSE RwWriteUnlock(@)]
    /\ Step(t, "done")
    /\ res' = [res EXCEPT ![t] = "Cancelled"]
    /\ UNCHANGED <<guardVars, detVars, mtx, value, seen, onceVars, envVars>>

\* DerefMut on an AsyncLoadRwLockWriteGuard: a &mut T, the Option stays Some
LoadModify(t, l) ==
    /\ l \in LoadLocks /\ l \in used
    /\ pc[t] = "idle" /\ wg[t][l]
    /\ value[l] <= MaxWrites
    /\ value' = [value EXCEPT ![l] = @ + 1]
    /\ UNCHANGED <<pc, op, cur, res, guardVars, detVars, rawVars, seen,
                   onceVars, envVars>>

\* an AsyncLoadRwLockReadGuard goes out of scope
LoadDropRead(t, l) ==
    /\ l \in LoadLocks
    /\ rg[t][l] > 0
    /\ Call(t, l, "drop", "ldr_read")
    /\ rg' = [rg EXCEPT ![t][l] = @ - 1]
    /\ UNCHANGED <<qg, wg>>

\* an AsyncLoadRwLockWriteGuard goes out of scope
LoadDropWrite(t, l) ==
    /\ l \in LoadLocks
    /\ wg[t][l]
    /\ Call(t, l, "drop", "ldw_write")
    /\ wg' = [wg EXCEPT ![t][l] = FALSE]
    /\ UNCHANGED <<rg, qg>>

\* --------------------------------------------- LockData::id, step by step
\* hist.known[t]: the locks whose non-zero lock_id task t has read; a
\* Relaxed load may still return the initial 0 to a task that has not
\* yet read the value stored by another task
StartId(t, l) ==
    /\ ID < MaxIds
    /\ Call(t, l, "id", "id_load")
    /\ UNCHANGED guardVars

\* let v = self.lock_id.load(Relaxed); a non-zero v is returned
IdLoad(t) ==
    /\ pc[t] = "id_load"
    /\ \E v \in {lock_id[cur[t]]} \cup
                (IF cur[t] \in hist.known[t] THEN {} ELSE {0}) :
          IF v # 0
          THEN /\ seen' = [seen EXCEPT ![t] = v]
               /\ hist' = [hist EXCEPT !.known[t] = @ \cup {cur[t]}]
               /\ Step(t, OkNext(t))
          ELSE /\ Step(t, ErrNext(t))
               /\ UNCHANGED <<seen, hist>>
    /\ UNCHANGED <<res, guardVars, detVars, rawVars, value, onceVars,
                   scoped, nest, task, used, dlVars>>

\* new_id: ID.fetch_add(1, Relaxed)
IdNew(t) ==
    /\ pc[t] = "id_new"
    /\ seen' = [seen EXCEPT ![t] = ID]
    /\ ID' = ID + 1
    /\ Step(t, OkNext(t))
    /\ UNCHANGED <<res, guardVars, locks_held, await_lock_id, lock_id,
                   locked_tasks, rawVars, value, onceVars, envVars>>

\* mutant: the new id is stored without comparing
IdCasStore(t) ==
    /\ pc[t] = "id_cas"
    /\ lock_id' = [lock_id EXCEPT ![cur[t]] = seen[t]]
    /\ hist' = [hist EXCEPT !.known[t] = @ \cup {cur[t]}]
    /\ Step(t, OkNext(t))
    /\ UNCHANGED <<res, guardVars, locks_held, await_lock_id, ID,
                   locked_tasks, rawVars, value, seen, onceVars, scoped,
                   nest, task, used, dlVars>>

\* self.lock_id.compare_exchange(0, v, Relaxed, Relaxed): Ok(_) => v,
\* Err(v) => v
IdCas(t) ==
    /\ pc[t] = "id_cas"
    /\ IF lock_id[cur[t]] = 0
       THEN /\ lock_id' = [lock_id EXCEPT ![cur[t]] = seen[t]]
            /\ seen' = seen
       ELSE /\ lock_id' = lock_id
            /\ seen' = [seen EXCEPT ![t] = lock_id[cur[t]]]
    /\ hist' = [hist EXCEPT !.known[t] = @ \cup {cur[t]}]
    /\ Step(t, OkNext(t))
    /\ UNCHANGED <<res, guardVars, locks_held, await_lock_id, ID,
                   locked_tasks, rawVars, value, onceVars, scoped, nest, task,
                   used, dlVars>>

\* ------------------------------------- deadlock.rs: TaskData, DLDetector
\* The detector of deadlock.rs keeps one TaskData per scope in the
\* task-local TASK: Read(v), [kind |-> "Read", v |-> v], or Write.  read,
\* write and the drop of a DLGuard are synchronous and run in one step;
\* hist.was[t] is the TaskData before the call, hist.live[t] the number of
\* DLGuards of the scope that are not dropped yet.

\* TaskData::read: <<the new TaskData>>, or <<>> for Err(DeadlockDetected)
TaskData_read(d) == IF d.kind = "Read" THEN <<Read(d.v + 1)>> ELSE <<>>

\* mutant: TaskData::write is admitted in every Read state
TaskData_writeAnyRead(d) == IF d.kind = "Read" THEN <<Write>> ELSE <<>>

\* TaskData::write
TaskData_write(d) == IF d = Read(0) THEN <<Write>> ELSE <<>>

\* TaskData::unlock; v.saturating_sub(1)
TaskData_unlock(d) ==
    IF d.kind = "Read" THEN Read(IF d.v = 0 THEN 0 ELSE d.v - 1)
    ELSE Read(0)

\* TaskData::count
TaskData_count(d) == IF d.kind = "Read" THEN d.v ELSE 1

\* lock_held_count: <<the count>>, or <<>> for Err(NotDeadlockCheckFuture)
lock_held_count(t) ==
    IF scoped[t] THEN <<TaskData_count(TASK[task[t]])>> ELSE <<>>

\* TASK.try_with(|task| Ok(task.set(task.get().read()?))) and its write
\* twin: r is <<>> or the new TaskData
Admit(t, o, r) ==
    /\ pc[t] = "idle"
    /\ pc' = [pc EXCEPT ![t] = "done"]
    /\ op' = [op EXCEPT ![t] = o]
    /\ res' = [res EXCEPT ![t] =
                  IF ~scoped[t] THEN "NotDeadlockCheckFuture"
                  ELSE IF r = <<>> THEN "DeadlockDetected" ELSE "Ok"]
    /\ TASK' = IF scoped[t] /\ r # <<>>
               THEN [TASK EXCEPT ![task[t]] = r[1]] ELSE TASK
    /\ hist' = [hist EXCEPT
                  !.was[t] = TASK[task[t]],
                  !.live[task[t]] =
                      IF scoped[t] /\ r # <<>> THEN @ + 1 ELSE @]
    /\ UNCHANGED <<cur, guardVars, detVars, rawVars, value, seen, onceVars,
                   scoped, nest, task, used, detector>>

\* DLDetector::read
DLDetector_read(t) ==
    /\ TASK[task[t]].v < MaxReads
    /\ Admit(t, "dl_read", TaskData_read(TASK[task[t]]))

\* DLDetector::write
DLDetector_write(t) ==
    Admit(t, "dl_write", TaskData_write(TASK[task[t]]))

\* Drop for DLGuard, of a guard of the scope the task is in
DLGuard_drop(t) ==
    /\ pc[t] = "idle"
    /\ scoped[t]
    /\ hist.live[task[t]] > 0
    /\ TASK' = [TASK EXCEPT ![task[t]] = TaskData_unlock(@)]
    /\ hist' = [hist EXCEPT !.live[task[t]] = @ - 1]
    /\ UNCHANGED <<pc, op, cur, res, guardVars, detVars, rawVars, value,
                   seen, onceVars, scoped, nest, task, used, detector>>

\* ------------------------------------------------ tasks.rs: DLDetector
\* The detector of tasks.rs belongs to one lock and keeps a Vec<Task> under
\* a parking_lot Mutex: register and remove run in one step.  The id is the
\* task id of the caller's scope.  hist.found[t] is what register of t found
\* for its id, hist.req[t] the access it asked for, hist.guards[i] the number of
\* DLGuards with id i that are not dropped yet.
Access == {"Read", "Queue", "Write"}

\* guard.iter().position(|task| task.id == i), 0 for None
Find(v, i) ==
    IF \E k \in 1..Len(v) : v[k].id = i
    THEN CHOOSE k \in 1..Len(v) :
             v[k].id = i /\ \A j \in 1..(k - 1) : v[j].id # i
    ELSE 0

\* guard.iter().find(|task| task.id == i): <<the Task>>, <<>> for None
EntryOf(v, i) == IF Find(v, i) = 0 THEN <<>> ELSE <<v[Find(v, i)]>>

\* mutant: Task::is_deadlock refuses only when neither access is Read
is_deadlockNeither(e, a) == e.access # "Read" /\ a # "Read"

\* Task::is_deadlock
is_deadlock(e, a) == e.access # "Read" \/ a # "Read"

\* DLDetector::register(id, access, val)
register(t, a) ==
    LET i == task[t]
        k == Find(detector, i)
        refused == k # 0 /\ is_deadlock(detector[k], a)
    IN /\ pc[t] = "idle"
       /\ k # 0 => detector[k].count < MaxReads
       /\ pc' = [pc EXCEPT ![t] = "done"]
       /\ op' = [op EXCEPT ![t] = "register"]
       /\ res' = [res EXCEPT ![t] =
                     IF refused THEN "DeadlockDetected" ELSE "Ok"]
       /\ detector' =
             IF refused THEN detector
             ELSE IF k # 0 THEN [detector EXCEPT ![k].count = @ + 1]
             ELSE Append(detector, [access |-> a, id |-> i, count |-> 1])
       /\ hist' = [hist EXCEPT
                     !.found[t] = EntryOf(detector, i),
                     !.req[t] = a,
                     !.guards[i] = IF refused THEN @ ELSE @ + 1]
       /\ UNCHANGED <<cur, guardVars, detVars, rawVars, value, seen,
                      onceVars, scoped, nest, task, used, TASK>>

\* Drop for DLGuard -> DLDetector::remove(id); expect("Task not found.")
\* panics when the Vec has no Task of the id
remove(t) ==
    LET i == task[t]
        k == Find(detector, i)
    IN /\ pc[t] = "idle"
       /\ hist.guards[i] > 0
       /\ pc' = [pc EXCEPT ![t] = "done"]
       /\ op' = [op EXCEPT ![t] = "remove"]
       /\ res' = [res EXCEPT ![t] =
                     IF k = 0 THEN "TaskNotFound" ELSE "Ok"]
       /\ detector' =
             IF k = 0 THEN detector
             ELSE IF detector[k].count = 1
             THEN [j \in 1..(Len(detector) - 1) |->
                      IF j < k THEN detector[j] ELSE detector[j + 1]]
             ELSE [detector EXCEPT ![k].count = @ - 1]
       /\ hist' = [hist EXCEPT !.guards[i] = @ - 1]
       /\ UNCHANGED <<cur, guardVars, detVars, rawVars, value, seen,
                      onceVars, scoped, nest, task, used, TASK>>

\* ------------------------------------------------- with_deadlock_check
\* mutant: with_deadlock_check installs a new context also inside a scope
EnterScopeFresh(t) ==
    /\ pc[t] = "idle"
    /\ nest[t] < MaxNest
    /\ nest' = [nest EXCEPT ![t] = @ + 1]
    /\ scoped' = [scoped EXCEPT ![t] = TRUE]
    /\ locks_held' = [locks_held EXCEPT ![task[t]] = <<>>]
    /\ await_lock_id' = [await_lock_id EXCEPT ![task[t]] = 0]
    /\ TASK' = [TASK EXCEPT ![task[t]] = TaskDataDefault]
    /\ UNCHANGED <<pc, op, cur, res, guardVars, lock_id, ID, locked_tasks,
                   rawVars, value, seen, onceVars, task, used, detector,
                   hist>>

\* with_deadlock_check(f) is polled for the first time: if the task-local
\* is not set, a scope with a new context is installed; else f runs in the
\* context that is there
EnterScope(t) ==
    /\ pc[t] = "idle"
    /\ nest[t] < MaxNest
    /\ nest' = [nest EXCEPT ![t] = @ + 1]
    /\ IF ~scoped[t]
       THEN /\ scoped' = [scoped EXCEPT ![t] = TRUE]
            /\ locks_held' = [locks_held EXCEPT ![task[t]] = <<>>]
            /\ await_lock_id' = [await_lock_id EXCEPT ![task[t]] = 0]
            /\ TASK' = [TASK EXCEPT ![task[t]] = TaskDataDefault]
       ELSE UNCHANGED <<scoped, locks_held, await_lock_id, TASK>>
    /\ UNCHANGED <<pc, op, cur, res, guardVars, lock_id, ID, locked_tasks,
                   rawVars, value, seen, onceVars, task, used, detector,
                   hist>>

\* the future given to with_deadlock_check returns: the scope ends with
\* the outermost one, which here returns no guard
ExitScope(t) ==
    /\ pc[t] = "idle"
    /\ nest[t] > 0
    /\ nest' = [nest EXCEPT ![t] = @ - 1]
    /\ IF nest[t] = 1
       THEN /\ \A l \in used : Owned(t, l) = NoGuard
            /\ hist.live[task[t]] = 0
            /\ scoped' = [scoped EXCEPT ![t] = FALSE]
       ELSE scoped' = scoped
    /\ UNCHANGED <<pc, op, cur, res, guardVars, detVars, rawVars, value,
                   seen, onceVars, task, used, dlVars, hist>>

\* ---------------------------------------------------------- cancellation
\* The future of queue() is dropped while it is suspended.  Its pending
\* tokio future is dropped first (a waiter leaves the FIFO queue, a permit
\* already handed to it is given back), then the locals in reverse order of
\* declaration: the MutexGuard if there is one, then the LockAwaitGuard.

\* dropped while suspended in self.mutex.lock().await
CancelMutexWait(t) ==
    /\ pc[t] = "qu_lock_wait"
    /\ mtx' = [mtx EXCEPT ![cur[t]] =
                  IF @.holder = t THEN MutexUnlock(@)
                  ELSE [@ EXCEPT !.queue = SelectSeq(@, LAMBDA w : w # t)]]
    /\ Step(t, "cx_clear")
    /\ UNCHANGED <<res, guardVars, detVars, rwl, value, seen, onceVars,
                   envVars>>

\* mutant: the MutexGuard is forgotten instead of dropped
CancelReadWaitLeak(t) ==
    /\ pc[t] = "qu_read_wait"
    /\ rwl' = [rwl EXCEPT ![cur[t]] =
                  IF RwWaiting(@, t)
                  THEN RwGrant([@ EXCEPT !.queue =
                                    SelectSeq(@, LAMBDA w : w[1] # t)])
                  ELSE RwReadUnlock(@, t)]
    /\ Step(t, "cx_clear")
    /\ UNCHANGED <<res, guardVars, detVars, mtx, value, seen, onceVars,
                   envVars>>

\* dropped while suspended in self.rwlock.read().await
CancelReadWait(t) ==
    /\ pc[t] = "qu_read_wait"
    /\ rwl' = [rwl EXCEPT ![cur[t]] =
                  IF RwWaiting(@, t)
                  THEN RwGrant([@ EXCEPT !.queue =
                                    SelectSeq(@, LAMBDA w : w[1] # t)])
                  ELSE RwReadUnlock(@, t)]
    /\ Step(t, "cx_mutex")
    /\ UNCHANGED <<res, guardVars, detVars, mtx, value, seen, onceVars,
                   envVars>>

\* drop of the MutexGuard local
CancelRelMutex(t) ==
    /\ pc[t] = "cx_mutex"
    /\ mtx' = [mtx EXCEPT ![cur[t]] = MutexUnlock(@)]
    /\ Step(t, "cx_clear")
    /\ UNCHANGED <<res, guardVars, detVars, rwl, value, seen, onceVars,
                   envVars>>

\* Drop for LockAwaitGuard; whoever dropped the future goes on, which the
\* result "Cancelled" stands for
CancelClear(t) ==
    /\ pc[t] = "cx_clear"
    /\ await_lock_id' = [await_lock_id EXCEPT ![task[t]] = 0]
    /\ Step(t, "done")
    /\ res' = [res EXCEPT ![t] = "Cancelled"]
    /\ UNCHANGED <<guardVars, locks_held, lock_id, ID, locked_tasks, rawVars,
                   value, seen, onceVars, envVars>>

\* ------------------------------------------------------- specifications
\* the state after construction of the locks: the run uses one of the lock
\* configurations, scopes says which tasks run inside with_deadlock_check
\* and owners which Task each of them runs in
InitState(tasks, configs, scopes, owners) ==
    /\ used \in configs
    /\ scoped \in scopes
    /\ nest = [t \in tasks |-> IF scoped[t] THEN 1 ELSE 0]
    /\ task \in owners
    /\ pc = [t \in tasks |-> "idle"]
    /\ op = [t \in tasks |-> ""]
    /\ cur = [t \in tasks |-> ""]
    /\ res = [t \in tasks |-> ""]
    /\ rg = [t \in tasks |-> [l \in used |-> 0]]
    /\ qg = [t \in tasks |-> [l \in used |-> FALSE]]
    /\ wg = [t \in tasks |-> [l \in used |-> FALSE]]
    /\ locks_held = [t \in tasks |-> <<>>]
    /\ await_lock_id = [t \in tasks |-> 0]
    /\ lock_id = [l \in used |-> 0]
    /\ ID = 1
    /\ locked_tasks = [l \in used |-> <<>>]
    /\ mtx = [l \in used |-> [holder |-> NoTask, queue |-> <<>>]]
    /\ rwl = [l \in used |-> [readers |-> [t \in tasks |-> 0],
                               writer |-> NoTask, queue |-> <<>>]]
    /\ value = [l \in used |-> 0]
    /\ seen = [t \in tasks |-> 0]
    /\ cell = [l \in used |-> 0]
    /\ hmap = {}
    /\ hmtx = NoTask
    /\ started = 0
    /\ hist = [blocker |-> [t \in tasks |-> NoTask],
               wrote |-> [t \in tasks |-> 0],
               pre |-> [t \in tasks |-> NoGuard],
               closes |-> [t \in tasks |-> FALSE],
               modified |-> [t \in tasks |-> FALSE],
               known |-> [t \in tasks |-> {}],
               inner |-> [t \in tasks |-> {}],
               cells |-> [l \in used |-> 0],
               was |-> [t \in tasks |-> TaskDataDefault],
               found |-> [t \in tasks |-> <<>>],
               live |-> [t \in tasks |-> 0],
               guards |-> [t \in tasks |-> 0],
               req |-> [t \in tasks |-> ""]]
    /\ TASK = [t \in tasks |-> TaskDataDefault]
    /\ detector = <<>>

\* every task inside its own with_deadlock_check scope
InitWith(tasks, configs) ==
    InitState(tasks, configs, {[t \in tasks |-> TRUE]},
              {[t \in tasks |-> t]})

\* the steps inside read, write, queue, try_queue, lock and the drops
LockStep(t) ==
    \/ TryLockMutex(t)
    \/ TryRead(t)
    \/ TryWrite(t)
    \/ LockMutex(t)
    \/ MutexGranted(t)
    \/ AcquireRead(t)
    \/ ReadGranted(t)
    \/ AcquireWrite(t)
    \/ WriteGranted(t)
    \/ RelMutex(t)
    \/ RelRead(t)
    \/ RelWrite(t)
    \/ NewNoWait(t)
    \/ AwaitNew(t)
    \/ SetAwait(t)
    \/ HeldNew(t)
    \/ AwaitDrop(t)
    \/ HeldDrop(t)
    \/ Return(t)

\* the calls a task can make on a lock
LockCall(t, l) ==
    \/ StartQueue(t, l)
    \/ StartRead(t, l)
    \/ StartTryQueue(t, l)
    \/ StartWrite(t, l)
    \/ StartWriteToRead(t, l)
    \/ StartWriteToQueue(t, l)
    \/ StartReadToQueue(t, l)
    \/ StartRwWrite(t, l)
    \/ StartLock(t, l)
    \/ StartSyncLock(t, l)
    \/ StartSyncRead(t, l)
    \/ StartSyncWrite(t, l)
    \/ DropRead(t, l)
    \/ DropQueue(t, l)
    \/ DropWrite(t, l)
    \/ DropMutex(t, l)
    \/ value[l] < MaxWrites /\ StartModify(t, l)

\* Spec: two tasks make any calls, in any order, on one lock
Init == InitWith(TwoTasks, SingleLock)

Next ==
    \E t \in TwoTasks :
        \/ LockStep(t)
        \/ SyncLock(t)
        \/ SyncRead(t)
        \/ SyncWrite(t)
        \/ SyncTimeout(t)
        \/ ModStore(t)
        \/ \E l \in used : LockCall(t, l)

Spec == Init /\ [][Next]_vars


\* SpecOnce: three tasks call get_or_init on one empty AsyncOnceCell
OnceLock == {{"OC"}}

InitOnce == InitWith(ThreeTasks, OnceLock)

OnceStep(t) ==
    \/ TryLockMutex(t)
    \/ LockMutex(t)
    \/ MutexGranted(t)
    \/ RelMutex(t)
    \/ NewNoWait(t)
    \/ AwaitNew(t)
    \/ SetAwait(t)
    \/ HeldNew(t)
    \/ AwaitDrop(t)
    \/ HeldDrop(t)
    \/ Return(t)

NextOnce ==
    \E t \in ThreeTasks :
        \/ OnceStep(t)
        \/ StartGetOrInit(t)
        \/ StartGetOrTryInit(t)
        \/ StartGet(t)
        \/ OnceGet(t)
        \/ InitPoll(t)
        \/ InitSet(t)

SpecOnce == InitOnce /\ [][NextOnce]_vars

\* the steps inside queue() and the drop of a Queue guard; with no writer
\* the read lock is granted at the first poll
QueueStep(t) ==
    \/ TryLockMutex(t)
    \/ TryRead(t)
    \/ LockMutex(t)
    \/ MutexGranted(t)
    \/ AcquireRead(t)
    \/ RelMutex(t)
    \/ RelRead(t)
    \/ NewNoWait(t)
    \/ AwaitNew(t)
    \/ SetAwait(t)
    \/ HeldNew(t)
    \/ AwaitDrop(t)
    \/ HeldDrop(t)
    \/ Return(t)

\* the i-th QueueRwLock: L1, L2, L3
LockOf(i) == <<"Q1", "Q2", "Q3">>[i]

\* in a ring of n tasks, task t uses its own lock and the lock of the next
RingLocks(t, n) == {LockOf(t), LockOf((t % n) + 1)}

RingNext(tasks) ==
    \E t \in tasks :
        \/ QueueStep(t)
        \/ \E l \in RingLocks(t, Cardinality(tasks)) :
              \/ StartQueue(t, l)
              \/ DropQueue(t, l)

\* SpecCycle: each of the tasks A, B, C calls queue() on its own lock (L1,
\* L2, L3) and, owning that Queue guard, on the lock of the next task (L2,
\* L3, L1); it drops its Queue guards at any time
CycleLocks == {{"Q1", "Q2", "Q3"}}

InitCycle == InitWith(ThreeTasks, CycleLocks)

CycleCall(t) ==
    LET own == LockOf(t)
        next == LockOf((t % 3) + 1)
    IN \/ ~qg[t][own] /\ ~qg[t][next] /\ StartQueue(t, own)
       \/ qg[t][own] /\ ~qg[t][next] /\ StartQueue(t, next)
       \/ DropQueue(t, own)
       \/ DropQueue(t, next)

NextCycle == \E t \in ThreeTasks : QueueStep(t) \/ CycleCall(t)

SpecCycle == InitCycle /\ [][NextCycle]_vars

\* SpecPair: tasks A and B call queue() on, and drop the Queue guards of, L1
\* and L2 in any order.  The runtime polls a task that can take a step, so
\* the steps of a task inside an operation are weakly fair; its calls are not.
PairLocks == {{"Q1", "Q2"}}

InitPair == InitWith(TwoTasks, PairLocks)

NextPair == RingNext(TwoTasks)

SpecPair ==
    /\ InitPair
    /\ [][NextPair]_vars
    /\ \A t \in TwoTasks : WF_vars(QueueStep(t))

\* SpecWriters: every task runs queue() -> write() -> modify -> drop once on
\* L1.  No task calls read(), so try_write never fails and the slow path of
\* write() is not taken.
WriterLock == {{"Q1"}}

InitWriters == InitWith(ThreeTasks, WriterLock)

WriterStep(t) ==
    \/ TryLockMutex(t)
    \/ TryRead(t)
    \/ TryWrite(t)
    \/ LockMutex(t)
    \/ MutexGranted(t)
    \/ AcquireRead(t)
    \/ ReadGranted(t)
    \/ RelMutex(t)
    \/ RelRead(t)
    \/ RelWrite(t)
    \/ NewNoWait(t)
    \/ AwaitNew(t)
    \/ SetAwait(t)
    \/ HeldNew(t)
    \/ AwaitDrop(t)
    \/ HeldDrop(t)
    \/ Return(t)
    \/ ModStore(t)

WriterCall(t) ==
    \/ /\ ~hist.modified[t] /\ Owned(t, "Q1") = NoGuard
       /\ StartQueue(t, "Q1")
    \/ StartWrite(t, "Q1")
    \/ ~hist.modified[t] /\ StartModify(t, "Q1")
    \/ hist.modified[t] /\ DropWrite(t, "Q1")

NextWriters == \E t \in ThreeTasks : WriterStep(t) \/ WriterCall(t)

\* fair scheduling: a task that can go on does go on
SpecWriters ==
    /\ InitWriters
    /\ [][NextWriters]_vars
    /\ \A t \in ThreeTasks : WF_vars(WriterStep(t) \/ WriterCall(t))

\* SpecOutside: as Spec, but task 1 runs outside with_deadlock_check, and
\* task 2 inside or outside
SomeOutside == {s \in [TwoTasks -> BOOLEAN] : ~s[1]}

InitOutside ==
    InitState(TwoTasks, SingleLock, SomeOutside, {[t \in TwoTasks |-> t]})

SpecOutside == InitOutside /\ [][Next]_vars

\* SpecJoin: futures 1 and 2 are joined inside one with_deadlock_check
\* scope and share its Task and LOCKS_HELD; future 3 runs in its own scope.
\* Future 1 calls queue() on L1, future 2 on L2, future 3 on both; they
\* drop their Queue guards at any time.
JoinOwners == {[t \in ThreeTasks |-> IF t = 2 THEN 1 ELSE t]}

JoinLocks(t) == IF t = 3 THEN UNION PairLocks ELSE {LockOf(t)}

InitJoin ==
    InitState(ThreeTasks, PairLocks, {[t \in ThreeTasks |-> TRUE]},
              JoinOwners)

NextJoin ==
    \E t \in ThreeTasks :
        \/ QueueStep(t)
        \/ \E l \in JoinLocks(t) :
              \/ StartQueue(t, l)
              \/ DropQueue(t, l)

SpecJoin == InitJoin /\ [][NextJoin]_vars

\* SpecCancel: two tasks call queue(), read() and write() on L1 and drop
\* their guards; a suspended queue() may be dropped.  The steps inside an
\* operation and inside the drop of a future are weakly fair.
InitCancel == InitWith(TwoTasks, WriterLock)

CancelStep(t) ==
    \/ CancelRelMutex(t)
    \/ CancelClear(t)

NextCancel ==
    \E t \in TwoTasks :
        \/ LockStep(t)
        \/ CancelMutexWait(t)
        \/ CancelReadWait(t)
        \/ CancelStep(t)
        \/ StartQueue(t, "Q1")
        \/ StartRead(t, "Q1")
        \/ StartWrite(t, "Q1")
        \/ DropRead(t, "Q1")
        \/ DropQueue(t, "Q1")
        \/ DropWrite(t, "Q1")

SpecCancel ==
    /\ InitCancel
    /\ [][NextCancel]_vars
    /\ \A t \in TwoTasks : WF_vars(LockStep(t) \/ CancelStep(t))

\* SpecContend: three tasks contend for one async RwLock or one async
\* Mutex; a task that owns nothing asks for the lock, a task that owns a
\* guard keeps it across suspension points and then drops it
ContendLocks == {{"RW"}, {"MX"}}

InitContend == InitWith(ThreeTasks, ContendLocks)

ContendDrop(t) ==
    \E l \in used :
        \/ DropRead(t, l)
        \/ DropWrite(t, l)
        \/ DropMutex(t, l)

ContendCall(t) ==
    \E l \in used :
        /\ Owned(t, l) = NoGuard
        /\ \/ StartRead(t, l)
           \/ StartRwWrite(t, l)
           \/ StartLock(t, l)

NextContend ==
    \E t \in ThreeTasks :
        \/ LockStep(t)
        \/ ContendCall(t)
        \/ ContendDrop(t)

\* the runtime polls a task that can go on, and the owner of a guard drops
\* it in the end
SpecContend ==
    /\ InitContend
    /\ [][NextContend]_vars
    /\ \A t \in ThreeTasks : WF_vars(LockStep(t)) /\ WF_vars(ContendDrop(t))

\* SpecMap: task A calls get_or_init and get_or_try_init for the key K1 of
\* an AsyncHashMapOnce, task B calls get, get_or_init and get_or_try_init
\* for the keys K1 and K2.  The runtime polls a task that can go
\* on; an initializer for K2 completes, an initializer for K1 may stay
\* suspended for ever.  parking_lot's mutex is eventually fair: a thread
\* that keeps asking for the map mutex gets it.
MapLocks == {OnceKeys}

InitMap == InitWith(TwoTasks, MapLocks)

MapStep(t) ==
    \/ OnceStep(t)
    \/ OnceGet(t)
    \/ InitPoll(t)
    \/ HmLock(t)
    \/ HmEntry(t)
    \/ HmGet(t)
    \/ HmUnlock(t)

MapCall(t) ==
    \E k \in (IF t = 1 THEN {"K1"} ELSE OnceKeys) :
        \/ StartMapGetOrInit(t, k)
        \/ StartMapGetOrTryInit(t, k)
        \/ t # 1 /\ StartMapGet(t, k)

NextMap ==
    \E t \in TwoTasks :
        \/ MapStep(t)
        \/ InitSet(t)
        \/ MapCall(t)

SpecMap ==
    /\ InitMap
    /\ [][NextMap]_vars
    /\ \A t \in TwoTasks :
          /\ WF_vars(MapStep(t))
          /\ SF_vars(HmLock(t))
          /\ WF_vars(cur[t] = "K2" /\ InitSet(t))

\* SpecLoad: three tasks call read_or_init, write_or_init and the
\* _or_try_init variants on one empty AsyncLoadRwLock, modify the value
\* through their write guards and drop their guards
LoadLock == {LoadLocks}

InitLoad == InitWith(ThreeTasks, LoadLock)

LoadStep(t) ==
    \/ AcquireRead(t)
    \/ ReadGranted(t)
    \/ AcquireWrite(t)
    \/ WriteGranted(t)
    \/ RelRead(t)
    \/ RelWrite(t)
    \/ LoadProbe(t)
    \/ LoadCheck(t)
    \/ LoadPoll(t)
    \/ LoadStore(t)
    \/ LoadReturn(t)
    \/ LoadDowngrade(t)
    \/ LoadCancel(t)
    \/ Return(t)

LoadCall(t, l) ==
    \/ StartReadOrInit(t, l)
    \/ StartReadOrTryInit(t, l)
    \/ StartWriteOrInit(t, l)
    \/ StartWriteOrTryInit(t, l)
    \/ LoadModify(t, l)
    \/ LoadDropRead(t, l)
    \/ LoadDropWrite(t, l)

NextLoad ==
    \E t \in ThreeTasks :
        \/ LoadStep(t)
        \/ \E l \in used : LoadCall(t, l)

SpecLoad == InitLoad /\ [][NextLoad]_vars

\* SpecId: three tasks call LockData::id on two lock descriptors
IdLocks == {{"Q1", "Q2"}}

InitId == InitWith(ThreeTasks, IdLocks)

NextId ==
    \E t \in ThreeTasks :
        \/ \E l \in used : StartId(t, l)
        \/ IdLoad(t)
        \/ IdNew(t)
        \/ IdCas(t)
        \/ Return(t)

SpecId == InitId /\ [][NextId]_vars

\* SpecNest: two tasks, each in its own scope at first, call read() and
\* write() on one async RwLock, or lock() on one async Mutex, and drop
\* their guards, and between the calls enter and leave nested
\* with_deadlock_check futures
NestLocks == {{"RW"}, {"MX"}}

InitNest == InitWith(TwoTasks, NestLocks)

NestCall(t, l) ==
    \/ StartRead(t, l)
    \/ StartRwWrite(t, l)
    \/ StartLock(t, l)
    \/ DropRead(t, l)
    \/ DropWrite(t, l)
    \/ DropMutex(t, l)

NextNest ==
    \E t \in TwoTasks :
        \/ LockStep(t)
        \/ EnterScope(t)
        \/ ExitScope(t)
        \/ \E l \in used : NestCall(t, l)

SpecNest == InitNest /\ [][NextNest]_vars

\* SpecTicket: two tasks call queue() on two QueueRwLocks, read() on the
\* first and write() on their Queue guard of the first, and drop their guards
TicketLocks == {{"Q1", "Q2"}}

InitTicket == InitWith(TwoTasks, TicketLocks)

TicketCall(t, l) ==
    \/ StartQueue(t, l)
    \/ l = "Q1" /\ rg[t][l] = 0 /\ StartRead(t, l)
    \/ l = "Q1" /\ StartWrite(t, l)
    \/ DropRead(t, l)
    \/ DropQueue(t, l)
    \/ DropWrite(t, l)

NextTicket ==
    \E t \in TwoTasks :
        \/ LockStep(t)
        \/ \E l \in used : TicketCall(t, l)

SpecTicket == InitTicket /\ [][NextTicket]_vars

\* SpecCounter: two tasks enter and leave with_deadlock_check and call
\* read() and write() of the DLDetector of deadlock.rs, inside and outside a
\* scope, and drop the DLGuards they got
InitCounter ==
    InitState(TwoTasks, {{"Q1"}}, [TwoTasks -> BOOLEAN],
              {[t \in TwoTasks |-> t]})

NextCounter ==
    \E t \in TwoTasks :
        \/ DLDetector_read(t)
        \/ DLDetector_write(t)
        \/ DLGuard_drop(t)
        \/ Return(t)
        \/ EnterScope(t)
        \/ ExitScope(t)

SpecCounter == InitCounter /\ [][NextCounter]_vars

\* SpecRegister: three futures, the first two in one scope and so with one
\* task id, register with the DLDetector of one lock of tasks.rs and drop
\* the DLGuards they got
InitRegister ==
    InitState(ThreeTasks, {{"Q1"}}, {[t \in ThreeTasks |-> TRUE]},
              JoinOwners)

NextRegister ==
    \E t \in ThreeTasks :
        \/ \E a \in Access : register(t, a)
        \/ remove(t)
        \/ Return(t)

SpecRegister == InitRegister /\ [][NextRegister]_vars

\* ================================================================ claims
\* the locks of the run that are QueueRwLocks / reader-writer locks
UsedQueue == used \cap QueueLocks
UsedRw == used \cap (QueueLocks \cup RwLocks)

\* task t is inside QueueRwLockQueueGuard::write on l and has not yet
\* reached the drop of self.mutex
BeforeUnlock(t, l) ==
    /\ cur[t] = l
    /\ pc[t] \in {"wr_drop_active", "wr_drop_read", "wr_try_write",
                  "wr_fast_unlock", "wr_await", "wr_cas", "wr_write",
                  "wr_write_wait", "wr_slow_unlock", "wr_err_mutex"}

\* C1 (I1, write exclusivity): while a task owns a Write guard on a
\* QueueRwLock or an async RwLock, no other task owns a Read, Queue or Write
\* guard on that lock.
WriteExclusive ==
    \A l \in UsedRw : \A t \in DOMAIN pc :
        wg[t][l] => \A u \in DOMAIN pc \ {t} : Owned(u, l) = NoGuard

\* a task owns the Write guard while another task is suspended in read()
WriteExclusiveWitness ==
    \E l \in UsedRw : \E t \in DOMAIN pc : \E u \in DOMAIN pc \ {t} :
        wg[t][l] /\ cur[u] = l /\ pc[u] = "rd_read_wait"

\* C2 (I2, queue exclusivity): at most one task owns a Queue guard on a
\* QueueRwLock, and while a task owns it no other task owns a Write guard on
\* that lock.
QueueExclusive ==
    \A l \in UsedQueue : \A t \in DOMAIN pc :
        qg[t][l] => \A u \in DOMAIN pc \ {t} : ~qg[u][l] /\ ~wg[u][l]

\* a task owns the Queue guard while another task owns Read guards
QueueExclusiveWitness ==
    \E l \in UsedQueue : \E t \in DOMAIN pc : \E u \in DOMAIN pc \ {t} :
        qg[t][l] /\ rg[u][l] = MaxReads

\* C8 (Q2): from QueueHeld until the exclusive write has been granted the
\* task holds queue_mutex; the mutex is dropped only with the write lock
\* granted (or on the error return), and while the task waits for the write
\* lock no other task holds queue_mutex or owns a Queue guard.
MutexHeldUntilWrite ==
    \A l \in UsedQueue : \A t \in DOMAIN pc :
        /\ (qg[t][l] \/ BeforeUnlock(t, l)) =>
              /\ mtx[l].holder = t
              /\ \A u \in DOMAIN pc \ {t} : ~qg[u][l]
        /\ (cur[t] = l /\ pc[t] \in {"wr_fast_unlock", "wr_slow_unlock",
                                     "wr_no_wait", "wr_held", "wr_clear"})
              => rwl[l].writer = t

\* a task waits for the write lock while another task waits for queue_mutex
MutexHeldUntilWriteWitness ==
    \E l \in UsedQueue : \E t \in DOMAIN pc : \E u \in DOMAIN pc \ {t} :
        /\ cur[t] = l /\ pc[t] = "wr_write_wait"
        /\ cur[u] = l /\ pc[u] = "qu_lock_wait"

\* the call task t is executing is a mixed re-entry: read() or write() on an
\* async RwLock it holds Write on, write() on one it holds Read on, lock()
\* on an async or sync Mutex it holds
MixedReentry(t) ==
    LET p == hist.pre[t]
    IN \/ /\ cur[t] \in RwLocks
          /\ \/ p.w /\ op[t] \in {"read", "write"}
             \/ p.r > 0 /\ op[t] = "write"
       \/ /\ cur[t] \in MutexLocks \cup SyncMutexLocks
          /\ p.w /\ op[t] = "lock"

\* labels at and after the await on the raw lock, on the slow path
AwaitLabels ==
    {"rd_read", "rd_read_wait", "rd_held", "rd_clear",
     "rw_write", "rw_write_wait", "rw_held", "rw_clear",
     "mx_lock", "mx_lock_wait", "mx_held", "mx_clear",
     "sm_lock", "sm_timeout", "sm_held", "sm_clear",
     "sr_lock", "sr_timeout", "sr_held", "sr_clear",
     "sw_lock", "sw_timeout", "sw_held", "sw_clear"}

\* task t holds on the raw primitive of l what its guards p stand for
RawHeld(t, l, p) ==
    IF l \in RwLocks \cup SyncRwLocks
    THEN /\ rwl[l].readers[t] = p.r
         /\ p.w <=> rwl[l].writer = t
    ELSE p.w <=> mtx[l].holder = t

\* C6: a mixed re-entry (read() or write() while holding Write, write()
\* while holding Read on an async RwLock; lock() while holding an async or
\* sync Mutex) never reaches the await on the raw lock, leaves the guards
\* the task owns and its hold on the raw lock as they were, and returns
\* RecursiveLock; the same request made while the task owns no guard on the
\* lock does not return RecursiveLock, and returns Ok on the async locks.
MixedReentryRefused ==
    \A t \in DOMAIN pc :
        (op[t] \in {"read", "write", "lock"}
         /\ cur[t] \in RwLocks \cup MutexLocks \cup SyncMutexLocks) =>
            /\ MixedReentry(t) =>
                  /\ pc[t] \notin AwaitLabels
                  /\ Owned(t, cur[t]) = hist.pre[t]
                  /\ RawHeld(t, cur[t], hist.pre[t])
                  /\ pc[t] = "done" => res[t] = "RecursiveLock"
            /\ (hist.pre[t] = NoGuard /\ pc[t] = "done") =>
                  /\ res[t] # "RecursiveLock"
                  /\ cur[t] \notin SyncMutexLocks => res[t] = "Ok"

\* a task that owns a Read guard on the async RwLock has called write() and
\* got RecursiveLock
MixedReentryRefusedWitness ==
    \E t \in DOMAIN pc :
        /\ MixedReentry(t) /\ pc[t] = "done" /\ res[t] = "RecursiveLock"
        /\ op[t] = "write" /\ hist.pre[t].r > 0

\* C7: a read() by a task that owns one or more Read guards on the lock
\* (async RwLock or QueueRwLock) returns Ok, whatever the other tasks do.
ReadReentryPermitted ==
    \A t \in DOMAIN pc :
        (pc[t] = "done" /\ op[t] = "read" /\ cur[t] \in UsedRw
         /\ hist.pre[t].r > 0 /\ ~hist.pre[t].q /\ ~hist.pre[t].w) =>
            res[t] = "Ok"

\* every task of S is suspended in queue() on a lock whose Queue guard
\* another task of S owns
WaitCycle(S) ==
    /\ S # {}
    /\ \A t \in S :
          /\ pc[t] = "qu_lock_wait"
          /\ \E u \in S \ {t} : qg[u][cur[t]]

\* C3 (I6): no set of tasks is ever suspended in a wait cycle, of any
\* length; the attempt that would close the cycle is refused instead.
NoWaitCycle == \A S \in SUBSET DOMAIN pc : ~WaitCycle(S)

\* the two QueueRwLocks of SpecPair
PairLockSet == UNION PairLocks

\* C4, first part: a queue() called by B on L1 while A owns the Queue guard
\* of L1 and is suspended in queue() on L2, whose Queue guard B owns, goes
\* from the failed try_lock to the check and returns DeadlockDetected; it
\* never reaches the await on the mutex.
ClosingRequestRefused ==
    \A b \in DOMAIN pc :
        hist.closes[b] =>
            /\ pc[b] \in {"qu_try_mutex", "qu_await", "done"}
            /\ pc[b] = "done" => res[b] = "DeadlockDetected"

\* C4: the closing request is refused, and once B drops its Queue guard on
\* L2 the queue() of A suspended on L2 is eventually granted.
TwoLockCycle ==
    /\ []ClosingRequestRefused
    /\ \A a \in TwoTasks : \A b \in TwoTasks \ {a} : \A l \in PairLockSet :
          (pc[a] = "qu_lock_wait" /\ cur[a] = l /\ op[b] = "drop"
           /\ cur[b] = l)
              ~> qg[a][l]

\* B's request has returned DeadlockDetected while A is still suspended
TwoLockCycleWitness ==
    \E a \in DOMAIN pc : \E b \in DOMAIN pc \ {a} :
        /\ hist.closes[b] /\ pc[b] = "done" /\ res[b] = "DeadlockDetected"
        /\ pc[a] = "qu_lock_wait" /\ qg[b][cur[a]] /\ qg[a][cur[b]]

\* C5: at most one initializer future is ever started on one cell.
InitializerStartedOnce == started <= 1

\* C9: a queue() called while another task A is in QueueHeld, in the
\* Queue -> Write transition or in WriteHeld returns its Queue guard only
\* when A owns no Queue or Write guard, is in no transition and holds no
\* write lock; if A modified the value in the meantime, the value is the one
\* A stored.
QueueNotOvertaken ==
    \A b \in DOMAIN pc :
        (pc[b] = "done" /\ op[b] = "queue" /\ res[b] = "Ok"
         /\ hist.blocker[b] # NoTask) =>
            LET a == hist.blocker[b]
                l == cur[b]
            IN /\ qg[b][l]
               /\ ~InQueueOrWrite(a, l)
               /\ rwl[l].writer # a
               /\ hist.wrote[b] > 0 => value[l] = hist.wrote[b]

\* B obtains the Queue guard after A, which was ahead of it, has stored a
\* value and dropped its Write guard
QueueNotOvertakenWitness ==
    \E b \in DOMAIN pc :
        /\ pc[b] = "done" /\ op[b] = "queue" /\ res[b] = "Ok"
        /\ hist.blocker[b] # NoTask /\ hist.wrote[b] > 0
        /\ value[cur[b]] = hist.wrote[b]

\* every writer has made its modification and dropped its Write guard
AllWritersDone ==
    \A t \in ThreeTasks :
        hist.modified[t] /\ pc[t] = "idle" /\ Owned(t, "Q1") = NoGuard

\* the value counts the modifications stored so far
NoLostUpdate ==
    value["Q1"] = Cardinality({t \in ThreeTasks : hist.modified[t]})

\* C10: under fair scheduling every one of the N tasks running
\* queue() -> write() -> modify -> drop on one QueueRwLock finishes, and the
\* value reflects all N modifications (no lost update).
WritersProgress ==
    /\ []NoLostUpdate
    /\ <>[](AllWritersDone /\ value["Q1"] = Cardinality(ThreeTasks))

\* all writers have finished and the value is N
WritersProgressWitness ==
    AllWritersDone /\ value["Q1"] = Cardinality(ThreeTasks)

\* task t holds nothing on the raw mutex and the raw RwLock of l and waits
\* for neither
RawReleased(t, l) ==
    /\ mtx[l].holder # t
    /\ ~Contains(mtx[l].queue, t)
    /\ rwl[l].readers[t] = 0
    /\ rwl[l].writer # t
    /\ ~RwWaiting(rwl[l], t)

\* C11: a task outside a scope gets NotDeadlockCheckFuture from queue(),
\* read(), write() and lock(); it never owns a guard, is in no holder set,
\* has no held-lock entry and no awaited lock, and when the call has
\* returned it holds nothing on the underlying mutex and RwLock.
OutsideScopeLeavesNothing ==
    \A t \in DOMAIN pc :
        ~scoped[t] =>
            /\ locks_held[task[t]] = <<>>
            /\ await_lock_id[task[t]] = 0
            /\ \A l \in used :
                  /\ Owned(t, l) = NoGuard
                  /\ ~Contains(locked_tasks[l], task[t])
                  /\ pc[t] \in {"idle", "done"} => RawReleased(t, l)
            /\ (pc[t] = "done"
                /\ op[t] \in {"queue", "read", "write", "lock"}) =>
                  res[t] = "NotDeadlockCheckFuture"

\* queue() outside a scope has returned its error; the task inside a scope
\* that found the mutex taken by that call has been handed the mutex
OutsideScopeLeavesNothingWitness ==
    \E t \in DOMAIN pc : \E u \in DOMAIN pc \ {t} :
        /\ ~scoped[t] /\ scoped[u]
        /\ pc[t] = "done" /\ op[t] = "queue"
        /\ res[t] = "NotDeadlockCheckFuture"
        /\ pc[u] = "qu_lock_wait" /\ mtx[cur[u]].holder = u

\* labels at which task t has a LockHeldGuard that is not (or no longer)
\* inside a guard owned by the caller: constructed by LockHeldGuard::new but
\* not yet returned, or inside a guard that is being consumed or dropped
HeldGuardInFlight ==
    {"qu_clear", "rd_clear", "wr_clear", "rw_clear", "mx_clear", "sm_clear",
     "sr_clear", "sw_clear", "oc_clear", "oc_drop_active", "wr_drop_active", "wrd_rel_write",
     "wrd_drop_active", "wqu_rel_write", "wqu_drop_active",
     "rqu_drop_active", "dr_active", "dq_active", "dw_active", "dm_active"}

\* the number of live LockHeldGuards of task t on lock l
LiveHeldGuards(t, l) ==
    rg[t][l] + (IF qg[t][l] THEN 1 ELSE 0) + (IF wg[t][l] THEN 1 ELSE 0)
    + (IF cur[t] = l /\ pc[t] \in HeldGuardInFlight THEN 1 ELSE 0)

\* C12 (I3): for every task and lock, the number of entries of the task in
\* the lock's locked_tasks, the number of occurrences of the lock's id in
\* the task's LOCKS_HELD and the number of live LockHeldGuards of the task
\* on the lock are equal; with no guard left the task is in no holder set
\* and its held set is empty.
HoldBookkeeping ==
    \A t \in DOMAIN pc :
        /\ \A l \in used :
              /\ Count(locked_tasks[l], task[t]) = LiveHeldGuards(t, l)
              /\ Count(locks_held[task[t]], id(l)) = LiveHeldGuards(t, l)
        /\ (\A l \in used : LiveHeldGuards(t, l) = 0) =>
              locks_held[task[t]] = <<>>

\* a task owns MaxReads Read guards while the other task is registered as
\* a holder of the same lock too
HoldBookkeepingWitness ==
    \E t \in DOMAIN pc : \E l \in used :
        /\ rg[t][l] = MaxReads /\ pc[t] = "idle"
        /\ Count(locked_tasks[l], task[t]) = MaxReads
        /\ Len(locked_tasks[l]) > MaxReads

\* labels at which the LockAwaitGuard of the running operation is live
WaitGuardLabels ==
    {"qu_lock", "qu_lock_wait", "qu_read", "qu_read_wait", "qu_held",
     "qu_clear", "rd_read", "rd_read_wait", "rd_held", "rd_clear",
     "wr_write", "wr_write_wait", "wr_slow_unlock", "wr_held", "wr_clear",
     "rw_write", "rw_write_wait", "rw_held", "rw_clear",
     "mx_lock", "mx_lock_wait", "mx_held", "mx_clear",
     "sm_lock", "sm_timeout", "sm_held", "sm_clear",
     "sr_lock", "sr_timeout", "sr_held", "sr_clear",
     "sw_lock", "sw_timeout", "sw_held", "sw_clear",
     "oc_lock", "oc_lock_wait", "oc_held", "oc_clear"}

CasLabels ==
    {"qu_cas", "rd_cas", "wr_cas", "rw_cas", "mx_cas", "sm_cas", "oc_cas",
     "sr_cas", "sw_cas"}

\* the futures of Task k that have a live LockAwaitGuard
Waiting(k) == {t \in DOMAIN pc : task[t] = k /\ pc[t] \in WaitGuardLabels}

\* a Task has at most one live LockAwaitGuard and its await_lock_id is the
\* id of that guard's lock, 0 when there is none
SingleWait ==
    \A k \in DOMAIN await_lock_id :
        /\ Cardinality(Waiting(k)) <= 1
        /\ Waiting(k) = {} => await_lock_id[k] = 0
        /\ \A t \in Waiting(k) :
              await_lock_id[k] # 0 /\ await_lock_id[k] = lock_id[cur[t]]

\* the compare-and-swap of a future whose Task already awaits a lock fails:
\* the call returns DeadlockDetected, no LockAwaitGuard is made and
\* await_lock_id is left as it was
SecondWaitRefused ==
    \A t \in DOMAIN pc :
        (pc[t] \in CasLabels /\ pc'[t] # pc[t]
         /\ await_lock_id[task[t]] # 0) =>
            /\ pc'[t] \notin WaitGuardLabels
            /\ res'[t] = "DeadlockDetected"
            /\ await_lock_id' = await_lock_id

\* C13 (I4): single wait per task, and a second wait started while one is
\* live is refused with DeadlockDetected without touching await_lock_id.
SingleWaitPerTask == []SingleWait /\ [][SecondWaitRefused]_vars

\* future 2 has been refused by the compare-and-swap (its Task holds no
\* lock, so the check before it passed) while future 1 of the same Task is
\* suspended with await_lock_id naming the lock future 1 waits for
SingleWaitPerTaskWitness ==
    \E t \in DOMAIN pc : \E u \in DOMAIN pc \ {t} :
        /\ task[t] = task[u]
        /\ pc[u] = "done" /\ res[u] = "DeadlockDetected"
        /\ locks_held[task[u]] = <<>>
        /\ pc[t] = "qu_lock_wait" /\ cur[t] # cur[u]
        /\ await_lock_id[task[t]] = lock_id[cur[t]]

\* the hold of task t on the raw mutex and RwLock of l is the one its
\* guards stand for, and it waits for neither
RawAsGuards(t, l) ==
    /\ mtx[l].holder = t <=> qg[t][l]
    /\ ~Contains(mtx[l].queue, t)
    /\ rwl[l].readers[t] = rg[t][l] + (IF qg[t][l] THEN 1 ELSE 0)
    /\ rwl[l].writer = t <=> wg[t][l]
    /\ ~RwWaiting(rwl[l], t)

\* after the future of a suspended queue() has been dropped the task
\* awaits no lock, owns the guards it owned before, is in the holder set and
\* has the lock in its held set once per such guard, and holds on the raw
\* mutex and RwLock only what those guards stand for
CancelLeavesNothing ==
    \A t \in DOMAIN pc :
        (pc[t] = "done" /\ res[t] = "Cancelled") =>
            /\ await_lock_id[task[t]] = 0
            /\ Owned(t, cur[t]) = hist.pre[t]
            /\ ~qg[t][cur[t]] /\ ~wg[t][cur[t]]
            /\ Count(locked_tasks[cur[t]], task[t]) = rg[t][cur[t]]
            /\ Count(locks_held[task[t]], id(cur[t])) = rg[t][cur[t]]
            /\ RawAsGuards(t, cur[t])

\* task a owns neither the Queue nor the Write guard and is not about to
\* get one
Released(a) ==
    /\ ~qg[a]["Q1"] /\ ~wg[a]["Q1"]
    /\ pc[a] \in {"idle", "done", "cx_mutex", "cx_clear", "dr_active",
                  "dr_read", "dq_active", "dq_mutex", "dq_read",
                  "dw_active", "dw_write"}

\* C14: dropping the future of a queue() suspended on queue_mutex or on the
\* shared read leaves nothing behind, and a queue() of another task that is
\* suspended once the others have released is eventually granted (unless
\* its own future is dropped).
CancelWhileWaiting ==
    /\ []CancelLeavesNothing
    /\ \A u \in TwoTasks :
          (pc[u] = "qu_lock_wait"
           /\ \A a \in TwoTasks \ {u} : Released(a))
              ~> (qg[u]["Q1"] \/ res[u] = "Cancelled")

\* the future of a queue() that had obtained queue_mutex has been dropped
\* and the mutex has been handed to the other task, suspended in queue()
CancelWhileWaitingWitness ==
    \E t \in DOMAIN pc : \E u \in DOMAIN pc \ {t} :
        /\ pc[t] = "done" /\ res[t] = "Cancelled"
        /\ pc[u] = "qu_lock_wait" /\ mtx["Q1"].holder = u

\* the labels of QueueRwLock::try_queue
TryQueueLabels ==
    {"tq_try_mutex", "tq_try_read", "tq_unlock", "tq_no_wait",
     "tq_err_read", "tq_err_mutex", "done"}

\* try_queue stays within its own, non-waiting steps; it returns a Queue
\* guard or None, and with None the guards of the caller, its entries in
\* the holder set and the held set and its hold on the raw mutex and RwLock
\* are as before the call
TryQueueReturns ==
    \A t \in DOMAIN pc :
        op[t] = "try_queue" =>
            /\ pc[t] \in TryQueueLabels
            /\ pc[t] = "done" =>
                  /\ res[t] \in {"Ok", "None"}
                  /\ res[t] = "Ok" =>
                        /\ qg[t][cur[t]]
                        /\ mtx[cur[t]].holder = t
                  /\ res[t] = "None" =>
                        /\ Owned(t, cur[t]) = hist.pre[t]
                        /\ RawAsGuards(t, cur[t])
                        /\ Count(locked_tasks[cur[t]], task[t])
                              = LiveHeldGuards(t, cur[t])
                        /\ Count(locks_held[task[t]], id(cur[t]))
                              = LiveHeldGuards(t, cur[t])

\* try_queue fails at try_lock exactly when some task holds queue_mutex,
\* and at try_read exactly when a writer owns the inner RwLock
TryQueueDecides ==
    \A t \in DOMAIN pc :
        /\ (pc[t] = "tq_try_mutex" /\ pc'[t] # pc[t]) =>
              ((pc'[t] = "done" /\ res'[t] = "None")
                  <=> mtx[cur[t]].holder # NoTask)
        /\ (pc[t] = "tq_try_read" /\ pc'[t] # pc[t]) =>
              /\ pc'[t] = "tq_unlock" <=> rwl[cur[t]].writer # NoTask
              /\ pc'[t] = "tq_no_wait" <=> rwl[cur[t]].writer = NoTask

NoWaitLabels ==
    {"qu_no_wait", "rd_no_wait", "tq_no_wait", "wr_no_wait", "rw_no_wait",
     "mx_no_wait", "sm_no_wait", "sr_no_wait", "sw_no_wait"}

\* C16: a hold is registered on the fast path (the task is added to the
\* holders of the lock and the lock id to the held set) only for a request
\* that passes the recursive-lock check and the await-cycle check, as on
\* the slow path.
FastPathChecked ==
    [][\A t \in DOMAIN pc :
          (/\ pc[t] \in NoWaitLabels
           /\ scoped[t]
           /\ pc'[t] # pc[t]
           /\ locked_tasks'[cur[t]] # locked_tasks[cur[t]])
              => check_deadlock(t, cur[t]) = "Ok"]_vars

\* C17: the wait guard is released before the hold is registered: no task
\* is among the holders of a lock while its await_lock_id is still the id
\* of that lock.
WaitReleasedBeforeHold ==
    \A t \in DOMAIN pc : \A l \in DOMAIN locked_tasks :
        Contains(locked_tasks[l], task[t]) =>
            \/ await_lock_id[task[t]] = 0
            \/ await_lock_id[task[t]] # lock_id[l]

\* task t holds on the inner RwLock of l a shared read taken for a Queue
\* ticket: it owns the Queue guard, or is inside queue() / try_queue past
\* the grant of the read, or inside QueueRwLockQueueGuard::write or the
\* drop of the Queue guard before the read is released
HoldsTicketRead(t, l) ==
    \/ qg[t][l]
    \/ /\ cur[t] = l
       /\ \/ pc[t] \in {"qu_no_wait", "qu_err_read", "qu_held", "qu_clear",
                        "tq_no_wait", "tq_err_read", "wr_drop_active",
                        "wr_drop_read", "dq_active", "dq_mutex", "dq_read"}
          \/ pc[t] = "qu_read_wait" /\ ~RwWaiting(rwl[l], t)

\* the shared read of a ticket is requested by a task that holds
\* queue_mutex, and a ticket read is a permit of the inner RwLock
ReadRequestedUnderMutex ==
    \A t \in DOMAIN pc :
        /\ pc[t] \in {"qu_try_read", "tq_try_read", "qu_read",
                      "qu_read_wait"} => mtx[cur[t]].holder = t
        /\ \A l \in UsedQueue :
              HoldsTicketRead(t, l) => rwl[l].readers[t] > rg[t][l]

\* C18 as stated: queue_mutex is acquired before the shared read is
\* requested, and no task ever holds a shared read taken for a Queue ticket
\* while it does not hold queue_mutex.
TicketReadOnlyUnderMutex ==
    /\ ReadRequestedUnderMutex
    /\ \A t \in DOMAIN pc : \A l \in UsedQueue :
          HoldsTicketRead(t, l) => mtx[l].holder = t

\* C18, amended: queue_mutex is acquired before the shared read is
\* requested; the owner of a Queue guard holds queue_mutex; a task holds a
\* ticket read without queue_mutex only while the Queue guard is being
\* dropped, between the release of the mutex and the release of the read.
MutexBeforeTicketRead ==
    /\ ReadRequestedUnderMutex
    /\ \A t \in DOMAIN pc : \A l \in UsedQueue :
          /\ qg[t][l] => mtx[l].holder = t
          /\ (HoldsTicketRead(t, l) /\ mtx[l].holder # t) =>
                (cur[t] = l /\ pc[t] = "dq_read")

\* a queue() that was suspended on queue_mutex has been handed the mutex
\* and then the shared read, while the task that dropped its Queue guard
\* has released the mutex and still holds its ticket read
MutexBeforeTicketReadWitness ==
    \E t \in DOMAIN pc : \E u \in DOMAIN pc \ {t} : \E l \in UsedQueue :
        /\ cur[t] = l /\ pc[t] = "dq_read" /\ rwl[l].readers[t] > 0
        /\ cur[u] = l /\ pc[u] = "qu_held"
        /\ mtx[l].holder = u /\ rwl[l].readers[u] > 0

Suspended(b) == pc[b] \in {"rd_read_wait", "rw_write_wait", "mx_lock_wait"}

\* a request for a lock another task owns is not served before that task
\* has dropped its guard, and no request ends with an error
ContendedRequestWaits ==
    \A b \in DOMAIN pc :
        (op[b] \in {"read", "write", "lock"} /\ pc[b] = "done") =>
            /\ res[b] = "Ok"
            /\ \A a \in DOMAIN pc \ {b} :
                  /\ wg[a][cur[b]] => Owned(b, cur[b]) = NoGuard
                  /\ rg[a][cur[b]] > 0 => ~wg[b][cur[b]]

\* C20: lock(), read() or write() by a task that owns nothing, on an async
\* Mutex or RwLock that other tasks own across suspension points, never
\* returns an error; it is suspended while the lock is not available and
\* returns Ok once the owners have dropped their guards.
PlainContention ==
    /\ []ContendedRequestWaits
    /\ \A b \in ThreeTasks :
          Suspended(b) ~> (pc[b] = "done" /\ res[b] = "Ok")

\* task b is suspended in its request while task a, idle at a suspension
\* point of its own, owns the Write guard (or the MutexGuard) of the lock
PlainContentionWitness ==
    \E b \in DOMAIN pc : \E a \in DOMAIN pc \ {b} :
        /\ Suspended(b) /\ await_lock_id[task[b]] = id(cur[b])
        /\ pc[a] = "idle" /\ wg[a][cur[b]]

\* the errors of the deadlock detector
DetectorErrors == {"RecursiveLock", "DeadlockDetected"}

\* the number of guards in p
GuardCount(p) ==
    p.r + (IF p.q THEN 1 ELSE 0) + (IF p.w THEN 1 ELSE 0)

\* the guards of task t, its entries in the holder sets and in its held
\* set, its awaited lock and its hold on the raw mutex and RwLock of the
\* lock of the call are what they were when the call was made
AsBeforeCall(t) ==
    /\ Owned(t, cur[t]) = hist.pre[t]
    /\ await_lock_id[task[t]] = 0
    /\ \A l \in used :
          /\ Count(locked_tasks[l], task[t]) = GuardCount(Owned(t, l))
          /\ Count(locks_held[task[t]], id(l)) = GuardCount(Owned(t, l))
    /\ IF cur[t] \in QueueLocks THEN RawAsGuards(t, cur[t])
       ELSE /\ RawHeld(t, cur[t], hist.pre[t])
            /\ ~Contains(mtx[cur[t]].queue, t)
            /\ ~RwWaiting(rwl[cur[t]], t)

\* a detector error is returned straight from LockAwaitGuard::new, before
\* any await on the raw locks
ErrorBeforeAwait ==
    \A t \in DOMAIN pc :
        (res'[t] \in DetectorErrors /\ res[t] \notin DetectorErrors
         /\ (op[t] # "write" \/ cur[t] \in RwLocks)) =>
            /\ pc[t] \in {"qu_await", "rd_await", "rw_await", "mx_await",
                          "sm_await", "sr_await", "sw_await"}
                            \cup CasLabels
            /\ pc'[t] = "done"

\* C21 as stated: whenever read(), write(), queue() or lock() returns
\* RecursiveLock or DeadlockDetected, the held set, the awaited lock, the
\* holder set, queue_mutex and the raw RwLock / Mutex are as before the call.
ErrorLeavesStateUnchanged ==
    \A t \in DOMAIN pc :
        (pc[t] = "done" /\ res[t] \in DetectorErrors
         /\ op[t] \in {"queue", "read", "write", "lock"}) => AsBeforeCall(t)

\* C21, amended: whenever QueueRwLock::queue / read, RwLock::read / write or
\* Mutex::lock, called on the lock, returns RecursiveLock or
\* DeadlockDetected, the call has not awaited the raw locks and the held
\* set, the awaited lock, the holder set, queue_mutex and the raw RwLock /
\* Mutex are as before the call; a failed QueueRwLockQueueGuard::write has
\* consumed and released the Queue guard.
ErrorOnLockCallLeavesState ==
    /\ [](\A t \in DOMAIN pc :
            (pc[t] = "done" /\ res[t] \in DetectorErrors) =>
                /\ (op[t] \in {"queue", "read", "lock"}
                    \/ (op[t] = "write" /\ cur[t] \in RwLocks)) =>
                       AsBeforeCall(t)
                /\ (op[t] = "write" /\ cur[t] \in QueueLocks) =>
                       /\ hist.pre[t].q /\ ~qg[t][cur[t]]
                       /\ RawAsGuards(t, cur[t])
                       /\ await_lock_id[task[t]] = 0)
    /\ [][ErrorBeforeAwait]_vars

\* a queue() of a task that owns the Write guard took queue_mutex on its
\* fast path, failed try_read, released the mutex and returned
\* RecursiveLock
ErrorOnLockCallLeavesStateWitness ==
    \E t \in DOMAIN pc :
        /\ pc[t] = "done" /\ op[t] = "queue" /\ res[t] = "RecursiveLock"
        /\ hist.pre[t].w /\ wg[t][cur[t]]
        /\ mtx[cur[t]].holder # t

\* the operations of AsyncOnceCell that hand out the value
OnceOps == {"get", "get_or_init", "get_or_try_init"}

\* C22: the value of a set cell never changes; every get, get_or_init and
\* get_or_try_init that returns a value returns the value of the cell, a
\* get_or_init returns nothing else, and a get made on a set cell returns
\* its value.
OnceValueStable ==
    /\ [][\A l \in DOMAIN cell : cell[l] # 0 => cell'[l] = cell[l]]_vars
    /\ [](\A t \in DOMAIN pc :
            (op[t] \in OnceOps /\ pc[t] = "done") =>
                /\ res[t] = "Ok" =>
                      (cell[cur[t]] # 0 /\ seen[t] = cell[cur[t]])
                /\ op[t] = "get_or_init" => res[t] = "Ok")
    /\ [][\A t \in DOMAIN pc :
            (pc[t] = "oc_get0" /\ pc'[t] = "done" /\ cell[cur[t]] # 0) =>
                (res'[t] = "Ok" /\ seen'[t] = cell[cur[t]])]_vars

\* two initializers have run; the first to complete set the cell, and the
\* call of the other has returned the value of the cell, not its own
OnceValueStableWitness ==
    \E t \in DOMAIN pc : \E u \in DOMAIN pc \ {t} :
        /\ started >= 2 /\ cell["OC"] # 0 /\ cell["OC"] < started
        /\ pc[t] = "done" /\ op[t] = "get_or_init" /\ seen[t] = cell["OC"]
        /\ pc[u] = "done" /\ op[u] \in OnceOps /\ seen[u] = cell["OC"]

\* C23: a get_or_try_init whose initializer returned an error returns that
\* error to its caller and the cell is empty when it returns.
FailedInitReturnsError ==
    [][\A t \in DOMAIN pc :
          (pc[t] = "oc_set" /\ seen[t] = InitErr /\ pc'[t] = "done") =>
              (res'[t] = "InitError" /\ cell'[cur[t]] = 0)]_vars

\* the labels between the lock and the unlock of the map mutex
InsideMapMutex == {"hm_entry", "hm_unlock", "hg_get", "hg_unlock"}

\* C24: the map mutex is held only inside get_or_create_cell and get,
\* never while an initializer runs or a task is suspended; whatever the
\* initializers for K1 do, an operation that asks for the map mutex gets it
\* and releases it, and every get and every operation on K2 completes.
MapMutexNotHeldAcrossInit ==
    /\ [](\A t \in DOMAIN pc : hmtx = t <=> pc[t] \in InsideMapMutex)
    /\ \A t \in TwoTasks :
          /\ pc[t] \in {"hm_lock", "hg_lock"} ~> pc[t] \in {"oc_get1", "done"}
          /\ (pc[t] # "idle" /\ (cur[t] = "K2" \/ op[t] = "get"))
                ~> pc[t] = "done"

\* while the initializer of one task for K1 is suspended, the other task
\* started an initializer for K2 and got its value
MapMutexNotHeldAcrossInitWitness ==
    \E a \in DOMAIN pc : \E b \in DOMAIN pc \ {a} :
        /\ pc[a] = "oc_set" /\ cur[a] = "K1" /\ seen[a] > 0
        /\ cell["K1"] = 0
        /\ pc[b] = "done" /\ cur[b] = "K2" /\ op[b] = "get_or_init"
        /\ res[b] = "Ok" /\ seen[b] > seen[a]

\* C25: every guard of an AsyncLoadRwLock is backed by a present value and
\* by the raw lock; a present value never becomes absent, so no task sees
\* the lock empty after a successful init; from the store of the value to
\* the return of the read guard of read_or_init the task keeps the raw lock
\* (write, then read, exchanged in one step), so no other task obtains the
\* write lock in between.
LoadGuardsBacked ==
    /\ [](\A l \in used \cap LoadLocks : \A t \in DOMAIN pc :
            /\ (rg[t][l] > 0 \/ wg[t][l]) => value[l] # 0
            /\ wg[t][l] => rwl[l].writer = t
            /\ rg[t][l] > 0 =>
                  (rwl[l].readers[t] = rg[t][l] /\ rwl[l].writer = NoTask)
            /\ (cur[t] = l /\ pc[t] \in {"ld_ret", "ld_downgrade"}) =>
                  (value[l] # 0 /\ rwl[l].writer = t)
            /\ (cur[t] = l /\ pc[t] = "done" /\ op[t] \in LoadOps) =>
                  /\ res[t] \in {"Ok", "InitError", "Cancelled"}
                  /\ res[t] = "InitError" =>
                        op[t] \in {"read_or_try_init", "write_or_try_init"}
                  /\ res[t] = "Ok" =>
                        /\ seen[t] = value[l]
                        /\ IF op[t] \in {"read_or_init", "read_or_try_init"}
                           THEN rg[t][l] = 1 ELSE wg[t][l])
    /\ [][\A l \in used \cap LoadLocks :
            /\ value[l] # 0 => value'[l] # 0
            /\ \A t \in DOMAIN pc :
                  (cur[t] = l /\ pc[t] = "ld_downgrade"
                   /\ pc'[t] # pc[t]) =>
                      /\ rwl'[l].writer = NoTask
                      /\ rwl'[l].readers[t] = 1]_vars

\* read_or_init of a task found the lock empty, ran the initializer and has
\* returned its read guard after the downgrade, which also let in the
\* read of another task that was waiting behind it
LoadGuardsBackedWitness ==
    \E t \in DOMAIN pc : \E u \in DOMAIN pc \ {t} :
        /\ pc[t] = "done" /\ op[t] = "read_or_init" /\ res[t] = "Ok"
        /\ rg[t]["LD"] = 1 /\ started > 0 /\ seen[t] = started
        /\ pc[u] = "ld_read_wait" /\ rwl["LD"].readers[u] = 1

\* the sync locks: Mutex and RwLock of the module sync
SyncLocks == SyncMutexLocks \cup SyncRwLocks

\* another task holds the lock of the request of t in a mode that excludes
\* the request, owns the guard for it and is in the holder set
HeldIncompatibly(t) ==
    \E u \in DOMAIN pc \ {t} :
        /\ \/ wg[u][cur[t]]
           \/ op[t] = "write" /\ rg[u][cur[t]] > 0
        /\ Count(locked_tasks[cur[t]], task[u]) > 0

\* the timeout is only taken while the raw lock is held by another task,
\* and neither the timeout nor the drop of the LockAwaitGuard after it
\* touches a guard, a holder set, a held set or a raw lock
TimeoutLeavesHolder ==
    \A t \in DOMAIN pc :
        /\ (res'[t] = "SyncLockTimeout" /\ res[t] # "SyncLockTimeout") =>
              /\ cur[t] \in SyncLocks
              /\ await_lock_id[task[t]] = id(cur[t])
              /\ IF cur[t] \in SyncMutexLocks
                 THEN mtx[cur[t]].holder \notin {NoTask, t}
                 ELSE \E u \in DOMAIN pc \ {t} :
                         \/ rwl[cur[t]].writer = u
                         \/ op[t] = "write" /\ rwl[cur[t]].readers[u] > 0
              /\ UNCHANGED <<guardVars, detVars, rawVars>>
        /\ (pc[t] \in {"sm_timeout", "sr_timeout", "sw_timeout"}
            /\ pc'[t] # pc[t]) =>
              /\ pc'[t] = "done"
              /\ UNCHANGED <<guardVars, locks_held, locked_tasks, rawVars>>

\* C26: when lock() on a sync Mutex or read() or write() on a sync RwLock
\* gives up after its bounded wait, it returns SyncLockTimeout only because
\* another task held the raw lock; at the return the caller awaits no
\* lock, owns no guard on the lock, is not in its holder set, has in its held
\* set what it had before and holds nothing on the raw lock; the guards,
\* the holder set and the raw lock of the holder are not touched.
SyncTimeoutLeavesClean ==
    /\ [](\A t \in DOMAIN pc :
            (pc[t] = "done" /\ res[t] = "SyncLockTimeout") =>
                /\ cur[t] \in SyncLocks
                /\ hist.pre[t] = NoGuard
                /\ AsBeforeCall(t)
                /\ Count(locked_tasks[cur[t]], task[t]) = 0)
    /\ [][TimeoutLeavesHolder]_vars

\* task t asked for Read on the sync RwLock while another task owned its
\* Write guard, timed out and has returned; the holder still owns the guard
SyncTimeoutLeavesCleanWitness ==
    \E t \in DOMAIN pc :
        /\ pc[t] = "done" /\ res[t] = "SyncLockTimeout"
        /\ cur[t] = "SR" /\ op[t] = "read"
        /\ await_lock_id[task[t]] = 0
        /\ HeldIncompatibly(t)
        /\ \E u \in DOMAIN pc \ {t} : rwl["SR"].writer = u /\ wg[u]["SR"]

\* C27: a call of id() on a lock returns the lock_id of the lock, which is
\* not 0 and never changes once it is not 0, so all calls on one lock
\* return the same value, whichever task's compare-and-swap was first; two
\* locks never have the same non-zero lock_id; the ids come from the
\* counter ID, which starts at 1 and only grows.
LockIdsStableAndDistinct ==
    /\ [](/\ ID >= 1
          /\ \A l \in used : lock_id[l] < ID
          /\ \A l \in used : \A k \in used \ {l} :
                lock_id[l] # 0 => lock_id[l] # lock_id[k]
          /\ \A t \in DOMAIN pc :
                (pc[t] = "done" /\ op[t] = "id") =>
                    /\ seen[t] # 0
                    /\ seen[t] = lock_id[cur[t]])
    /\ [][/\ ID' >= ID
          /\ \A l \in used :
                /\ lock_id[l] # 0 => lock_id'[l] = lock_id[l]
                /\ lock_id'[l] # lock_id[l] =>
                      lock_id'[l] >= 1 /\ lock_id'[l] < ID]_vars

\* two tasks ran the lazy assignment for Q1 at the same time: both took a
\* new id from the counter, the first compare-and-swap won, and the other
\* task has returned the winner's id, not the one it took
LockIdsStableAndDistinctWitness ==
    \E t \in DOMAIN pc : \E u \in DOMAIN pc \ {t} :
        /\ pc[t] = "done" /\ op[t] = "id" /\ cur[t] = "Q1"
        /\ pc[u] = "done" /\ op[u] = "id" /\ cur[u] = "Q1"
        /\ seen[t] = seen[u] /\ seen[t] = lock_id["Q1"]
        /\ ID > lock_id["Q1"] + 1
        /\ lock_id["Q2"] = 0

\* a request of task t that the guards it owned at the call exclude:
\* anything while it owns Write or the Mutex, write() while it owns Read
Incompatible(t) ==
    \/ hist.pre[t].w /\ op[t] \in {"read", "write", "lock"}
    \/ hist.pre[t].r > 0 /\ op[t] = "write"

\* a with_deadlock_check entered inside a scope and the return of its
\* future leave the context, the guards and the records as they are
NestedScopeIsNoOp ==
    \A t \in DOMAIN pc :
        (nest'[t] # nest[t] /\ nest[t] >= 1 /\ nest'[t] >= 1) =>
            /\ scoped[t] /\ scoped'[t]
            /\ UNCHANGED <<guardVars, detVars, rawVars, task>>

\* C28: with_deadlock_check inside a scope installs no new context: it
\* changes neither the held set, the awaited lock nor the holder sets; a
\* request made inside the nested future that the guards taken outside
\* exclude is refused with RecursiveLock; a guard acquired inside the
\* nested future and still owned is in the held set and the holder set,
\* once per guard, also after the nested future has returned.
NestedScopesShareContext ==
    /\ [](\A t \in DOMAIN pc :
            /\ scoped[t] <=> nest[t] >= 1
            /\ (pc[t] = "done" /\ Incompatible(t)) =>
                  res[t] = "RecursiveLock"
            /\ (pc[t] = "idle" /\ scoped[t]) =>
                  \A l \in used :
                     /\ Count(locks_held[task[t]], id(l))
                           = GuardCount(Owned(t, l))
                     /\ Count(locked_tasks[l], task[t])
                           = GuardCount(Owned(t, l))
            /\ \A l \in hist.inner[t] : Owned(t, l) # NoGuard)
    /\ [][NestedScopeIsNoOp]_vars

\* task t took a Read guard in the outer scope and a second one inside a
\* nested with_deadlock_check, asked for Write there and was refused, and
\* is back in the outer scope with both guards recorded
NestedScopesShareContextWitness ==
    \E t \in DOMAIN pc :
        /\ pc[t] = "done" /\ nest[t] = 1 /\ "RW" \in hist.inner[t]
        /\ op[t] = "write" /\ res[t] = "RecursiveLock"
        /\ rg[t]["RW"] = 2
        /\ Count(locks_held[task[t]], id("RW")) = 2

\* C29: when task A owns the Queue guard of L1 and task B that of L2 and
\* each calls queue() on the lock of the other, at least one of the two
\* calls returns DeadlockDetected, however the steps of the two calls of
\* LockAwaitGuard::new interleave: the tasks are never both suspended on
\* the queue_mutex of the lock whose Queue guard the other owns
\* (hist.blocker: and owned already when the call was made).
NoMutualSuspension ==
    \A a \in DOMAIN pc : \A b \in DOMAIN pc \ {a} :
        ~(/\ hist.blocker[a] = b /\ hist.blocker[b] = a
          /\ \E l \in used : SuspendedOnLockOf(a, b, l)
          /\ \E l \in used : SuspendedOnLockOf(b, a, l))

\* task t owns the Queue guard on l, or has called write() through it and
\* has not been granted the write lock yet
QueuedWriter(t, l) ==
    \/ qg[t][l]
    \/ /\ cur[t] = l /\ l \in QueueLocks /\ op[t] = "write"
       /\ pc[t] \in {"wr_drop_active", "wr_drop_read", "wr_try_write",
                     "wr_await", "wr_cas", "wr_write", "wr_write_wait"}

\* C30: from the moment a task owns a Queue guard on L until the write lock
\* asked for by write() on that guard is granted, no other task holds the
\* write lock of L, owns a Write guard on L or stores into its value, and
\* the value does not change: the task starts its Write section with the
\* value it saw under the Queue guard.
StableViewForQueuedWriter ==
    /\ [](\A l \in used \cap QueueLocks : \A t \in DOMAIN pc :
            QueuedWriter(t, l) =>
                /\ rwl[l].writer \in {NoTask, t}
                /\ \A u \in DOMAIN pc \ {t} :
                      /\ ~wg[u][l]
                      /\ ~QueuedWriter(u, l)
                      /\ ~(cur[u] = l /\ pc[u] = "mod_store"))
    /\ [][\A l \in used \cap QueueLocks :
            (\E t \in DOMAIN pc : QueuedWriter(t, l)) =>
                value'[l] = value[l]]_vars

\* the value was modified before; task t, through its Queue guard, has asked
\* for the write lock and waits for the Read guard of the other task to
\* be dropped
StableViewForQueuedWriterWitness ==
    \E t \in DOMAIN pc : \E u \in DOMAIN pc \ {t} :
        /\ pc[t] = "wr_write_wait" /\ cur[t] = "Q1"
        /\ rg[u]["Q1"] > 0
        /\ value["Q1"] > 0

\* task t has called write() on its Queue guard while it also owned a Read
\* guard on the same QueueRwLock
WriteUnderOwnRead(t) ==
    /\ op[t] = "write" /\ cur[t] \in QueueLocks
    /\ hist.pre[t].q /\ hist.pre[t].r > 0

\* the labels of QueueRwLockQueueGuard::write at and after the write lock
\* is taken or awaited
WriteTakenLabels ==
    {"wr_fast_unlock", "wr_no_wait", "wr_err_write", "wr_write",
     "wr_write_wait", "wr_slow_unlock", "wr_held", "wr_clear"}

\* C31: write() on a Queue guard by a task that also owns a Read guard on
\* the lock never takes or awaits the write lock, keeps the Read guards as
\* they were and returns RecursiveLock.
WriteUnderReadRefused ==
    \A t \in DOMAIN pc :
        WriteUnderOwnRead(t) =>
            /\ pc[t] \notin WriteTakenLabels
            /\ rg[t][cur[t]] = hist.pre[t].r
            /\ rwl[cur[t]].writer # t
            /\ ~RwWaiting(rwl[cur[t]], t)
            /\ pc[t] = "done" =>
                  /\ res[t] = "RecursiveLock"
                  /\ ~wg[t][cur[t]]
                  /\ rwl[cur[t]].readers[t] = hist.pre[t].r

\* a task that took a Read guard and then a Queue guard on Q1 has called
\* write() on the Queue guard and got RecursiveLock; its Read guard is left
WriteUnderReadRefusedWitness ==
    \E t \in DOMAIN pc :
        /\ WriteUnderOwnRead(t) /\ pc[t] = "done"
        /\ res[t] = "RecursiveLock" /\ rg[t]["Q1"] = 1
        /\ Count(locks_held[task[t]], id("Q1")) = 1

\* C32: when write() on a Queue guard has returned RecursiveLock or
\* DeadlockDetected, the task owns no Queue guard on the lock, holds neither
\* queue_mutex nor the shared read of the ticket, awaits no lock, and is in
\* the holder set and has the lock in its held set only for the guards it
\* still owns.
FailedWriteReleasesTicket ==
    \A t \in DOMAIN pc :
        (pc[t] = "done" /\ op[t] = "write" /\ cur[t] \in QueueLocks
         /\ res[t] \in DetectorErrors) =>
            /\ hist.pre[t].q
            /\ Owned(t, cur[t]) = [hist.pre[t] EXCEPT !.q = FALSE]
            /\ RawAsGuards(t, cur[t])
            /\ mtx[cur[t]].holder # t
            /\ await_lock_id[task[t]] = 0
            /\ Count(locked_tasks[cur[t]], task[t])
                  = GuardCount(Owned(t, cur[t]))
            /\ Count(locks_held[task[t]], id(cur[t]))
                  = GuardCount(Owned(t, cur[t]))

\* write() of task t on its Queue guard of Q1 has returned an error of the
\* detector, and the queue() of the other task on Q1 has got the Queue guard
\* since
FailedWriteReleasesTicketWitness ==
    \E t \in DOMAIN pc : \E u \in DOMAIN pc \ {t} :
        /\ pc[t] = "done" /\ op[t] = "write" /\ cur[t] = "Q1"
        /\ res[t] \in DetectorErrors
        /\ pc[u] = "done" /\ op[u] = "queue" /\ cur[u] = "Q1"
        /\ res[u] = "Ok" /\ qg[u]["Q1"] /\ mtx["Q1"].holder = u

\* task t is suspended in queue() on the queue_mutex of l
OnQueueMutex(t, l) ==
    /\ cur[t] = l /\ l \in QueueLocks
    /\ pc[t] = "qu_lock_wait" /\ mtx[l].holder # t

\* task t is suspended on the inner RwLock of l
OnInnerRwLock(t, l) ==
    /\ cur[t] = l /\ l \in QueueLocks
    /\ pc[t] \in {"qu_read_wait", "rd_read_wait", "wr_write_wait"}
    /\ RwWaiting(rwl[l], t)

\* the tasks whose guards on l the suspended task t waits for: the holder of
\* the queue_mutex, or the writer and the readers of the inner RwLock and
\* the waiters queued before t
WaitsFor(t, l) ==
    IF OnQueueMutex(t, l) THEN {mtx[l].holder}
    ELSE IF OnInnerRwLock(t, l)
    THEN LET q == rwl[l].queue
             i == CHOOSE k \in 1..Len(q) : q[k][1] = t
         IN {u \in DOMAIN pc : rwl[l].writer = u \/ rwl[l].readers[u] > 0}
                \cup {q[k][1] : k \in 1..(i - 1)}
    ELSE {}

\* no task is suspended on the queue_mutex of l while it holds a shared read
\* or the exclusive write on the inner RwLock of l
NoMutexWaitUnderRwLock ==
    \A t \in DOMAIN pc : \A l \in used :
        OnQueueMutex(t, l) =>
            /\ rwl[l].readers[t] = 0
            /\ rwl[l].writer # t

\* a direct queue() by a task that owns a Read guard on the lock is refused
QueueUnderOwnReadRefused ==
    \A t \in DOMAIN pc :
        (pc[t] = "done" /\ op[t] = "queue" /\ cur[t] \in QueueLocks
         /\ hist.pre[t].r > 0) => res[t] = "RecursiveLock"

\* no task suspended on a QueueRwLock waits for itself, or for a task that
\* is suspended on the same lock waiting for it
NoWaitCycleOnOneLock ==
    \A t \in DOMAIN pc : \A l \in used \cap QueueLocks :
        /\ t \notin WaitsFor(t, l)
        /\ \A u \in WaitsFor(t, l) : t \notin WaitsFor(u, l)

\* C33: no task suspends on the queue_mutex of a QueueRwLock while it holds a
\* shared read or the exclusive write on its inner RwLock, a direct queue()
\* under an own Read guard is refused, and tasks that use one QueueRwLock
\* never wait for each other in a cycle on it.
QueueMutexBeforeRwLock ==
    /\ NoMutexWaitUnderRwLock
    /\ QueueUnderOwnReadRefused
    /\ NoWaitCycleOnOneLock

\* the initializer of task t is about to be polled, or is pending
InInitializer(t) == pc[t] \in {"ld_poll", "ld_store"}

\* the call of task t has ended with the error of its initializer, or its
\* future was dropped
LoadGaveUp(t) ==
    /\ op[t] \in LoadOps /\ pc[t] = "done"
    /\ res[t] \in {"InitError", "Cancelled"}

\* C34: an initializer of an AsyncLoadRwLock runs only in a caller that
\* holds the exclusive write lock while no value is stored, so at most one
\* runs at a time and none after a value is stored; an initializer that
\* fails or whose caller is dropped stores nothing, and that caller then
\* holds and awaits nothing on the lock and owns no guard.
InitializedAtMostOnce ==
    /\ [](\A t \in DOMAIN pc :
             /\ InInitializer(t) =>
                   /\ rwl[cur[t]].writer = t
                   /\ value[cur[t]] = 0
                   /\ \A u \in DOMAIN pc \ {t} : ~InInitializer(u)
             /\ LoadGaveUp(t) =>
                   /\ rwl[cur[t]].writer # t
                   /\ rwl[cur[t]].readers[t] = 0
                   /\ ~RwWaiting(rwl[cur[t]], t)
                   /\ Owned(t, cur[t]) = NoGuard)
    /\ [][\A t \in DOMAIN pc :
             /\ started' # started => \A l \in used : value[l] = 0
             /\ (InInitializer(t) /\ LoadGaveUp(t)') => value' = value]_vars

\* an initializer has failed and one was dropped, both callers have given
\* up, and the third caller runs its own initializer
InitializedAtMostOnceWitness ==
    \E t, u, v \in DOMAIN pc :
        /\ LoadGaveUp(t) /\ res[t] = "InitError"
        /\ LoadGaveUp(u) /\ res[u] = "Cancelled"
        /\ pc[v] = "ld_store" /\ started = 3 /\ value[cur[v]] = 0

\* task t has returned a value from get_or_init or get_or_try_init of the
\* map for key k
MapReturned(t, k) ==
    /\ pc[t] = "done" /\ cur[t] = k /\ k \in hmap
    /\ op[t] \in {"get_or_init", "get_or_try_init"}
    /\ res[t] = "Ok"

\* C35: through get_or_init, get_or_try_init and get at most one cell is
\* created for a key of the map; the calls for one key that return a value
\* return the same value, the value of the cell of that key, and it is not
\* the value of the cell of another key.
OneCellPerKey ==
    \A k \in used \cap OnceKeys :
        /\ hist.cells[k] = (IF k \in hmap THEN 1 ELSE 0)
        /\ \A t \in DOMAIN pc :
              MapReturned(t, k) =>
                  /\ seen[t] # 0 /\ seen[t] = cell[k]
                  /\ \A u \in DOMAIN pc :
                        MapReturned(u, k) => seen[u] = seen[t]
                  /\ \A j \in (used \cap OnceKeys) \ {k} : cell[j] # seen[t]

\* both tasks ran an initializer for K1 and have returned the same value,
\* the value of the only cell created for K1, and K2 has a value too
OneCellPerKeyWitness ==
    /\ MapReturned(1, "K1") /\ MapReturned(2, "K1")
    /\ started >= 3 /\ hist.cells["K1"] = 1
    /\ cell["K2"] # 0

\* C36: inside a scope write() of the counter-based detector is admitted
\* exactly in Read(0) and read() exactly in a Read state, a refused call
\* returns DeadlockDetected and leaves the TaskData as it was; outside a
\* scope both return NotDeadlockCheckFuture; lock_held_count() is the number
\* of live DLGuards of the scope, every drop of a DLGuard lowering both by
\* one, and is 0 when none is live.
CounterMatchesGuards ==
    /\ [](\A t \in DOMAIN pc :
             /\ lock_held_count(t) =
                   (IF scoped[t] THEN <<hist.live[task[t]]>> ELSE <<>>)
             /\ TASK[task[t]].kind = "Write" => hist.live[task[t]] = 1
             /\ (pc[t] = "done" /\ op[t] \in {"dl_read", "dl_write"}) =>
                   /\ res[t] = "NotDeadlockCheckFuture" <=> ~scoped[t]
                   /\ res[t] = "Ok" <=>
                         /\ scoped[t]
                         /\ IF op[t] = "dl_write"
                            THEN hist.was[t] = Read(0)
                            ELSE hist.was[t].kind = "Read"
                   /\ res[t] = "Ok" =>
                         TASK[task[t]] =
                            (IF op[t] = "dl_write" THEN Write
                             ELSE Read(hist.was[t].v + 1))
                   /\ res[t] # "Ok" =>
                         /\ res[t] \in {"DeadlockDetected",
                                        "NotDeadlockCheckFuture"}
                         /\ TASK[task[t]] = hist.was[t])
    /\ [][\A t \in DOMAIN pc :
             hist'.live[t] < hist.live[t] =>
                 /\ hist'.live[t] = hist.live[t] - 1
                 /\ TaskData_count(TASK'[t]) = TaskData_count(TASK[t]) - 1
                 /\ TaskData_unlock(TASK[t]) = TASK'[t]]_vars

\* one task holds two read DLGuards and its write() was refused; the other
\* holds the write DLGuard and its read() was refused
CounterMatchesGuardsWitness ==
    \E t \in DOMAIN pc : \E u \in DOMAIN pc \ {t} :
        /\ pc[t] = "done" /\ op[t] = "dl_write"
        /\ res[t] = "DeadlockDetected" /\ TASK[task[t]] = Read(2)
        /\ pc[u] = "done" /\ op[u] = "dl_read"
        /\ res[u] = "DeadlockDetected" /\ TASK[task[u]] = Write
        /\ hist.live[task[u]] = 1

\* C37: the per-lock detector has exactly one Task for an id that has a live
\* DLGuard and none for another id, its count is the number of live guards
\* of the id, and a count above 1 goes with access Read; register for an id
\* that has a Task succeeds exactly when the recorded and the requested
\* access are both Read, and a refusal returns DeadlockDetected and leaves
\* the Task as it was; remove always finds its Task.
DetectorMatchesGuards ==
    /\ [](\A i \in DOMAIN hist.guards :
            /\ Cardinality({k \in 1..Len(detector) : detector[k].id = i})
                  = (IF hist.guards[i] > 0 THEN 1 ELSE 0)
            /\ \A k \in 1..Len(detector) :
                  detector[k].id = i =>
                      /\ detector[k].count = hist.guards[i]
                      /\ detector[k].count > 1 =>
                            detector[k].access = "Read")
    /\ [](\A t \in DOMAIN pc :
            /\ res[t] # "TaskNotFound"
            /\ (pc[t] = "done" /\ op[t] = "register") =>
                  LET e == hist.found[t]
                  IN /\ res[t] \in {"Ok", "DeadlockDetected"}
                     /\ res[t] = "Ok" <=>
                           \/ e = <<>>
                           \/ /\ e # <<>>
                              /\ e[1].access = "Read"
                              /\ hist.req[t] = "Read")
    /\ [][\A t \in DOMAIN pc :
            (pc[t] = "idle" /\ res'[t] = "DeadlockDetected") =>
                detector' = detector]_vars

\* the two futures of one scope hold two Read DLGuards, counted in one
\* Task, the write of the first was refused and the third future holds a
\* Write DLGuard
DetectorMatchesGuardsWitness ==
    /\ Len(detector) = 2
    /\ EntryOf(detector, 1) = <<[access |-> "Read", id |-> 1, count |-> 2]>>
    /\ EntryOf(detector, 3) = <<[access |-> "Write", id |-> 3, count |-> 1]>>
    /\ pc[1] = "done" /\ op[1] = "register" /\ hist.req[1] = "Write"
    /\ res[1] = "DeadlockDetected"

====
